---- MODULE Spec2Model ----
(***************************************************************************)
(* A model of ontc: the ontology store (lib/ontg/onto.c), the AST builders *)
(* (lib/oxpl/ast.c) and the executor (src/exec.c).                         *)
(*                                                                         *)
(* Pointers are positive integers indexing a heap sequence; NULL is 0.     *)
(* Linked lists (sl_list_node chains, argument chains) are sequences in    *)
(* list order.                                                             *)
(***************************************************************************)
EXTENDS Integers, Sequences, FiniteSets, TLC

NULL == 0

(* The NULL pointer to char: a value that no string of the model equals (the
   empty string is a string). *)
NullStr == "(null)"

(* ---- bounds of the single-database ontology model (SpecOnto) ---- *)
MaxRes == 2
MaxFacts == 2
MaxArgs == 2
MaxList == 2

(* ---- bounds of the query model (SpecQuery): QMaxArgs bounds the argument
   nodes of one fact and of the whole heap ---- *)
QMaxRes == 2
QMaxFacts == 2
QMaxArgs == 3
QMaxList == 2

(* ---- bounds of the release model (SpecFree) ---- *)
FreeMaxRes == 2
FreeMaxFacts == 2
FreeMaxArgs == 1
FreeMaxList == 2

(* ---- bounds of the several-databases ontology model (SpecOntoDbs) ---- *)
MaxDb == 2
DbsMaxRes == 2
DbsMaxFacts == 1
DbsMaxArgs == 1
DbsMaxList == 1

(* Resource names the callers choose from; where names play no part, one. *)
Names == {"a", "b"}
QNames == {"a"}

VARIABLES
    db,         \* heap of struct ontology_database: [resource_head, fact_head]
    resources,  \* heap of struct ontology_resource: [name]
    facts,      \* heap of struct ontology_fact: [predicate, argument_head]
    ret,        \* the last ontology call: its arguments, return value, diagnostic
    nodes,      \* heap of struct ast_node: [type, child, sibling, value, leaked]
    aret,       \* the last AST builder call: its arguments and return value
    pc,         \* the executor's position in exec_program
    root,       \* parse_ast
    stack,      \* the active execute_function calls, innermost last
    stdout,     \* what was written to stdout, in order
    stderr,     \* what was written to stderr, in order
    log         \* the execute_call dispatches so far: <<function node, call node>>

ontoVars == <<db, resources, facts, ret>>
astVars == <<nodes, aret>>
execVars == <<pc, root, stack, stdout, stderr, log>>

vars == <<db, resources, facts, ret, nodes, aret, pc, root, stack, stdout, stderr, log>>

(* The parts of the program a specification does not exercise stay as they
   are before their first use: no node built, no program run. *)
NoARet ==
    [op |-> "none", oper |-> "", args |-> <<>>, val |-> NULL, err |-> "none",
     fault |-> FALSE]
AstIdle == nodes = <<>> /\ aret = NoARet
ExecIdle ==
    /\ pc = "idle"
    /\ root = NULL
    /\ stack = <<>>
    /\ stdout = <<>>
    /\ stderr = <<>>
    /\ log = <<>>

(* ---- helpers over sequences ---- *)
Range(s) == {s[i] : i \in 1..Len(s)}

(***************************************************************************)
(* The ontology functions are operators on a store st = [db, resources,    *)
(* facts] (the three heaps).  Each returns [st, val, list, err, fault]:    *)
(* the store after the call, the returned pointer or int (NULL for void),  *)
(* the returned result list (query_triple), the diagnostic written to      *)
(* stderr ("none" when there is none) and whether the call dereferenced a  *)
(* NULL pointer.                                                           *)
(***************************************************************************)
Store == [db |-> db, resources |-> resources, facts |-> facts]

EmptyStore == [db |-> <<>>, resources |-> <<>>, facts |-> <<>>]

Out(st, val, err) ==
    [st |-> st, val |-> val, list |-> <<>>, err |-> err, fault |-> FALSE]

(* ontology_create_database: both lists empty. *)
ontology_create_database(st) ==
    Out([st EXCEPT !.db = Append(@, [resource_head |-> <<>>, fact_head |-> <<>>])],
        Len(st.db) + 1, "none")

(* ontology_create_resource: a resource attached to no database. *)
ontology_create_resource(st, name) ==
    Out([st EXCEPT !.resources = Append(@, [name |-> name])],
        Len(st.resources) + 1, "none")

(***************************************************************************)
(* The consistency check of ontology_create_fact and                       *)
(* ontology_add_argument_to_fact: a pointer comparison against the data of *)
(* every node of db->resource_head.                                        *)
(***************************************************************************)
(* The consistency check comparing names instead of pointers. *)
ResourceFoundByName(st, d, r) ==
    /\ r # NULL
    /\ \E i \in 1..Len(st.db[d].resource_head) :
          st.resources[st.db[d].resource_head[i]].name = st.resources[r].name

ResourceFound(st, d, r) ==
    \E i \in 1..Len(st.db[d].resource_head) : st.db[d].resource_head[i] = r

(* ontology_create_fact: NULL unless predicate is in db's resource list. *)
ontology_create_fact(st, d, predicate) ==
    IF ResourceFound(st, d, predicate)
    THEN Out([st EXCEPT !.facts =
                 Append(@, [predicate |-> predicate, argument_head |-> <<>>])],
             Len(st.facts) + 1, "none")
    ELSE Out(st, NULL, "predicate not present in resource list")

(* ontology_add_argument_to_fact: appends unless argument is not in db. *)
ontology_add_argument_to_fact(st, d, fact, argument) ==
    IF ResourceFound(st, d, argument)
    THEN Out([st EXCEPT !.facts[fact].argument_head = Append(@, argument)],
             NULL, "none")
    ELSE Out(st, NULL, "predicate not present in resource list")

(* ontology_add_resource: appends res to db's resource list. *)
ontology_add_resource(st, d, res) ==
    IF d = NULL \/ res = NULL
    THEN Out(st, NULL, "missing DB or resource")
    ELSE Out([st EXCEPT !.db[d].resource_head = Append(@, res)], NULL, "none")

(* ontology_add_fact: appends fact to db's fact list; nothing is checked. *)
ontology_add_fact(st, d, fact) ==
    IF d = NULL \/ fact = NULL
    THEN Out(st, NULL, "missing DB or fact")
    ELSE Out([st EXCEPT !.db[d].fact_head = Append(@, fact)], NULL, "none")

(***************************************************************************)
(* Release.  A release is the sequence of the calls of free() it makes,    *)
(* each a record [kind, ptr] naming the block: a fact or a resource by its *)
(* pointer, a list node by the pointer it holds, an argument list node by  *)
(* the fact it belongs to, a resource's name by the resource.              *)
(***************************************************************************)
Freed(kind, ptr) == [kind |-> kind, ptr |-> ptr]

(* ontology_free_resource: the name, then the resource. *)
ontology_free_resource(st, res) ==
    <<Freed("name", res), Freed("resource", res)>>

(* ontology_free_fact: every argument list node, then the fact; the
   resources the nodes hold are left alone. *)
ontology_free_fact(st, fact) ==
    [i \in 1..Len(st.facts[fact].argument_head) |-> Freed("argument_node", fact)]
        \o <<Freed("fact", fact)>>

RECURSIVE FreeFactList(_, _)
FreeFactList(st, list) ==
    IF list = <<>> THEN <<>>
    ELSE ontology_free_fact(st, Head(list)) \o <<Freed("fact_node", Head(list))>>
            \o FreeFactList(st, Tail(list))

RECURSIVE FreeResourceList(_, _)
FreeResourceList(st, list) ==
    IF list = <<>> THEN <<>>
    ELSE ontology_free_resource(st, Head(list))
            \o <<Freed("resource_node", Head(list))>>
            \o FreeResourceList(st, Tail(list))

(* The blocks of frees that free() is given more than once. *)
FreedTwice(frees) ==
    {frees[i] : i \in {k \in 1..Len(frees) :
                          \E j \in 1..(k - 1) : frees[j] = frees[k]
                                                  /\ frees[k].kind \in {"fact", "resource", "name"}}}

(* ontology_free_database: one ontology_free_fact per node of the fact
   list, one ontology_free_resource per node of the resource list, then the
   database.  Giving free() a block a second time is undefined; the model
   reports it as a fault and records the calls. *)
ontology_free_database(st, d) ==
    IF d = NULL
    THEN Out(st, NULL, "none")
    ELSE LET frees == FreeFactList(st, st.db[d].fact_head)
                        \o FreeResourceList(st, st.db[d].resource_head)
                        \o <<Freed("database", d)>>
         IN  [Out(st, NULL, "none") EXCEPT !.list = frees,
                                           !.fault = FreedTwice(frees) # {}]

(***************************************************************************)
(* ontology_check_fact_args.  An argument list node is (fact, position);   *)
(* the node after the last one is NULL.  The loop advances both cursors    *)
(* while both are nodes holding the same resource; the result compares the *)
(* two cursors, which are equal when both are NULL or both are the same    *)
(* node.                                                                   *)
(***************************************************************************)
ArgNode(st, f, i) ==
    IF i > Len(st.facts[f].argument_head) THEN <<NULL, NULL>> ELSE <<f, i>>

RECURSIVE CheckArgsStop(_, _, _, _)
CheckArgsStop(st, f, kf, i) ==
    IF /\ ArgNode(st, f, i) # <<NULL, NULL>>
       /\ ArgNode(st, kf, i) # <<NULL, NULL>>
       /\ st.facts[f].argument_head[i] = st.facts[kf].argument_head[i]
    THEN CheckArgsStop(st, f, kf, i + 1)
    ELSE i

(* The comparison with the length check dropped: a stored fact matches when
   the shorter argument list is a prefix of the longer. *)
check_fact_args_prefix(st, f, kf) ==
    LET i == CheckArgsStop(st, f, kf, 1)
    IN  IF ArgNode(st, f, i) = <<NULL, NULL>> \/ ArgNode(st, kf, i) = <<NULL, NULL>>
        THEN 0 ELSE 1

ontology_check_fact_args(st, f, kf) ==
    LET i == CheckArgsStop(st, f, kf, 1)
    IN  IF ArgNode(st, f, i) = ArgNode(st, kf, i) THEN 0 ELSE 1

(* ontology_check_fact: 0 when some stored fact matches, else 1. *)
RECURSIVE CheckFactScan(_, _, _, _)
CheckFactScan(st, d, fact, c) ==
    IF c > Len(st.db[d].fact_head) THEN 1
    ELSE LET kbfact == st.db[d].fact_head[c]
         IN  IF st.facts[kbfact].predicate # st.facts[fact].predicate
             THEN CheckFactScan(st, d, fact, c + 1)
             ELSE IF ontology_check_fact_args(st, fact, kbfact) = 0
                  THEN 0
                  ELSE CheckFactScan(st, d, fact, c + 1)

ontology_check_fact(st, d, fact) == Out(st, CheckFactScan(st, d, fact, 1), "none")

(***************************************************************************)
(* ontology_query_triple.  A stored fact with predicate rel and no         *)
(* argument has argument_head = NULL, and the scan reads kbsbj->next from  *)
(* it: a NULL dereference.  ub is what that read does: "trap" ends the     *)
(* call there with no result, "null" reads NULL and the scan goes on.      *)
(***************************************************************************)
UbOutcomes == {"trap", "null"}

RECURSIVE QueryScan(_, _, _, _, _, _, _, _)
QueryScan(st, d, rel, sbj, obj, ub, c, acc) ==
    IF c > Len(st.db[d].fact_head) THEN acc
    ELSE LET kbfact == st.facts[st.db[d].fact_head[c]]
             kbargs == kbfact.argument_head
             next   == QueryScan(st, d, rel, sbj, obj, ub, c + 1, acc)
         IN  IF kbfact.predicate # rel THEN next
             ELSE IF Len(kbargs) = 0
                  THEN IF ub = "trap"
                       THEN [list |-> <<>>, fault |-> TRUE]
                       ELSE QueryScan(st, d, rel, sbj, obj, ub, c + 1,
                                      [acc EXCEPT !.fault = TRUE])
             ELSE IF sbj = NULL /\ Len(kbargs) >= 2
                  THEN IF kbargs[2] = obj
                       THEN QueryScan(st, d, rel, sbj, obj, ub, c + 1,
                                      [acc EXCEPT !.list = Append(@, kbargs[1])])
                       ELSE next
             ELSE IF obj = NULL /\ Len(kbargs) >= 2
                  THEN IF kbargs[1] = sbj
                       THEN QueryScan(st, d, rel, sbj, obj, ub, c + 1,
                                      [acc EXCEPT !.list = Append(@, kbargs[2])])
                       ELSE next
             ELSE next

(* A query whose scan matches nothing. *)
query_triple_no_match(st, d, rel, sbj, obj, ub) ==
    IF sbj # NULL /\ obj # NULL THEN Out(st, NULL, "no query goal")
    ELSE Out(st, NULL, "none")

(* A query that gives its results last match first. *)
query_triple_reversed(st, d, rel, sbj, obj, ub) ==
    IF d = NULL THEN Out(st, NULL, "none")
    ELSE IF sbj # NULL /\ obj # NULL THEN Out(st, NULL, "no query goal")
    ELSE LET r == QueryScan(st, d, rel, sbj, obj, ub, 1,
                            [list |-> <<>>, fault |-> FALSE])
         IN  [st |-> st, val |-> NULL,
              list |-> [i \in 1..Len(r.list) |-> r.list[Len(r.list) + 1 - i]],
              err |-> "none", fault |-> r.fault]

ontology_query_triple(st, d, rel, sbj, obj, ub) ==
    IF d = NULL THEN Out(st, NULL, "none")
    ELSE IF sbj # NULL /\ obj # NULL THEN Out(st, NULL, "no query goal")
    ELSE LET r == QueryScan(st, d, rel, sbj, obj, ub, 1,
                            [list |-> <<>>, fault |-> FALSE])
         IN  [st |-> st, val |-> NULL, list |-> r.list, err |-> "none",
              fault |-> r.fault]

(***************************************************************************)
(* A caller of the library: one call per step, on pointers it can hold     *)
(* (or NULL where the function accepts it).                                *)
(***************************************************************************)
NoRet ==
    [op |-> "none", name |-> NullStr, args |-> <<>>, val |-> NULL, list |-> <<>>,
     err |-> "none", fault |-> FALSE]

DbPtrs == 1..Len(db)
ResPtrs == 1..Len(resources)
FactPtrs == 1..Len(facts)

(* A call with result out; name is the string the call was given, if it
   takes one. *)
CallNamed(op, name, args, out) ==
    /\ db' = out.st.db
    /\ resources' = out.st.resources
    /\ facts' = out.st.facts
    /\ ret' = [op |-> op, name |-> name, args |-> args, val |-> out.val,
               list |-> out.list, err |-> out.err, fault |-> out.fault]
    /\ UNCHANGED <<astVars, execVars>>

Call(op, args, out) == CallNamed(op, NullStr, args, out)

CallCreateDatabase == Call("create_database", <<>>, ontology_create_database(Store))

CallCreateResource(name) ==
    Call("create_resource", <<>>, ontology_create_resource(Store, name))

CallCreateFact(d, predicate) ==
    Call("create_fact", <<d, predicate>>, ontology_create_fact(Store, d, predicate))

CallAddArgumentToFact(d, fact, argument) ==
    Call("add_argument_to_fact", <<d, fact, argument>>,
         ontology_add_argument_to_fact(Store, d, fact, argument))

CallAddResource(d, res) ==
    Call("add_resource", <<d, res>>, ontology_add_resource(Store, d, res))

CallAddFact(d, fact) ==
    Call("add_fact", <<d, fact>>, ontology_add_fact(Store, d, fact))

CallCheckFact(d, fact) ==
    Call("check_fact", <<d, fact>>, ontology_check_fact(Store, d, fact))

CallQueryTriple(d, rel, sbj, obj) ==
    \E ub \in UbOutcomes :
        Call("query_triple", <<d, rel, sbj, obj>>,
             ontology_query_triple(Store, d, rel, sbj, obj, ub))

CallFreeDatabase(d) ==
    Call("free_database", <<d>>, ontology_free_database(Store, d))

(* One database, as in a program run or a shell session. *)
OntoInit ==
    /\ db = ontology_create_database(EmptyStore).st.db
    /\ resources = <<>>
    /\ facts = <<>>
    /\ ret = NoRet
    /\ AstIdle
    /\ ExecIdle

(* The argument list nodes allocated in a fact heap. *)
RECURSIVE ArgCells(_)
ArgCells(fs) ==
    IF fs = <<>> THEN 0 ELSE Len(Head(fs).argument_head) + ArgCells(Tail(fs))

(* The calls that build a store, within the given bounds. *)
Build(names, maxRes, maxFacts, maxArgs, maxCells, maxList) ==
    \/ \E name \in names :
          Len(resources) < maxRes /\ CallCreateResource(name)
    \/ \E d \in DbPtrs, p \in ResPtrs \cup {NULL} :
          /\ ResourceFound(Store, d, p) => Len(facts) < maxFacts
          /\ CallCreateFact(d, p)
    \/ \E d \in DbPtrs, f \in FactPtrs, a \in ResPtrs \cup {NULL} :
          /\ ResourceFound(Store, d, a) =>
                /\ Len(facts[f].argument_head) < maxArgs
                /\ ArgCells(facts) < maxCells
          /\ CallAddArgumentToFact(d, f, a)
    \/ \E d \in DbPtrs \cup {NULL}, r \in ResPtrs \cup {NULL} :
          /\ (d # NULL /\ r # NULL) => Len(db[d].resource_head) < maxList
          /\ CallAddResource(d, r)
    \/ \E d \in DbPtrs \cup {NULL}, f \in FactPtrs \cup {NULL} :
          /\ (d # NULL /\ f # NULL) => Len(db[d].fact_head) < maxList
          /\ CallAddFact(d, f)

(* SpecOnto: building a store and checking facts against it. *)
OntoNext ==
    \/ Build(Names, MaxRes, MaxFacts, MaxArgs, MaxFacts * MaxArgs, MaxList)
    \/ \E d \in DbPtrs, f \in FactPtrs : CallCheckFact(d, f)

SpecOnto == OntoInit /\ [][OntoNext]_vars

(* SpecQuery: building a store and querying it. *)
QueryNext ==
    \/ Build(QNames, QMaxRes, QMaxFacts, QMaxArgs, QMaxArgs, QMaxList)
    \/ \E d \in DbPtrs, rel \in ResPtrs, sbj \in ResPtrs \cup {NULL},
          obj \in ResPtrs \cup {NULL} : CallQueryTriple(d, rel, sbj, obj)

SpecQuery == OntoInit /\ [][QueryNext]_vars

(* SpecOntoDbs: several databases sharing the resource and fact heaps. *)
DbsNext ==
    \/ Len(db) < MaxDb /\ CallCreateDatabase
    \/ Build(QNames, DbsMaxRes, DbsMaxFacts, DbsMaxArgs, DbsMaxFacts * DbsMaxArgs, DbsMaxList)

SpecOntoDbs == OntoInit /\ [][DbsNext]_vars

(* SpecFree: a database is built and then released; nothing is called on a
   released database. *)
FreeNext ==
    /\ ret.op # "free_database"
    /\ \/ Build(QNames, FreeMaxRes, FreeMaxFacts, FreeMaxArgs, FreeMaxArgs, FreeMaxList)
       \/ \E d \in DbPtrs : CallFreeDatabase(d)

SpecFree == OntoInit /\ [][FreeNext]_vars

(***************************************************************************)
(*                     Claims about the ontology store                     *)
(***************************************************************************)

(* The facts stored in database d, in list order. *)
StoredFacts(d) == [i \in 1..Len(db[d].fact_head) |-> facts[db[d].fact_head[i]]]

(* C1: in every database, every stored fact's predicate and every one of its
   arguments is in that database's own resource list. *)
C1_FactIntegrity ==
    \A d \in DbPtrs : \A i \in 1..Len(db[d].fact_head) :
        LET f == StoredFacts(d)[i]
        IN  /\ f.predicate \in Range(db[d].resource_head)
            /\ \A j \in 1..Len(f.argument_head) :
                   f.argument_head[j] \in Range(db[d].resource_head)

(* C2: a subject-anchored query contains O exactly when a fact rel(S, O) with
   just these two arguments is stored, and an object-anchored query contains S
   exactly when such a fact is stored. *)
C2_QuerySoundness ==
    ret.op = "query_triple" =>
        LET d   == ret.args[1]
            rel == ret.args[2]
            sbj == ret.args[3]
            obj == ret.args[4]
            Has(S, O) == \E i \in 1..Len(db[d].fact_head) :
                            /\ StoredFacts(d)[i].predicate = rel
                            /\ StoredFacts(d)[i].argument_head = <<S, O>>
        IN  /\ (sbj # NULL /\ obj = NULL) =>
                   \A O \in ResPtrs : (O \in Range(ret.list)) <=> Has(sbj, O)
            /\ (sbj = NULL /\ obj # NULL) =>
                   \A S \in ResPtrs : (S \in Range(ret.list)) <=> Has(S, obj)

(* C3: check_fact answers 0 (present) exactly when the database stores a fact
   with the same predicate and the same argument sequence, and 1 otherwise. *)
C3_CheckFactExact ==
    /\ \A d \in DbPtrs, f \in FactPtrs :
           (ontology_check_fact(Store, d, f).val = 0) <=>
               \E i \in 1..Len(db[d].fact_head) :
                   /\ StoredFacts(d)[i].predicate = facts[f].predicate
                   /\ StoredFacts(d)[i].argument_head = facts[f].argument_head
    /\ ret.op = "check_fact" =>
           /\ ret.val \in {0, 1}
           /\ (ret.val = 0) <=>
                  \E i \in 1..Len(db[ret.args[1]].fact_head) :
                      /\ StoredFacts(ret.args[1])[i].predicate
                             = facts[ret.args[2]].predicate
                      /\ StoredFacts(ret.args[1])[i].argument_head
                             = facts[ret.args[2]].argument_head

(* C3's case: a probe with a stored fact's predicate and its two distinct
   arguments in the other order was answered absent, while the database
   answers present for the stored fact itself. *)
C3_Witness ==
    /\ ret.op = "check_fact"
    /\ ret.val = 1
    /\ \E i \in 1..Len(db[ret.args[1]].fact_head) :
          LET k == StoredFacts(ret.args[1])[i]
              p == facts[ret.args[2]]
          IN  /\ k.predicate = p.predicate
              /\ Len(k.argument_head) = 2
              /\ k.argument_head[1] # k.argument_head[2]
              /\ p.argument_head = <<k.argument_head[2], k.argument_head[1]>>
              /\ ontology_check_fact(Store, ret.args[1],
                                     db[ret.args[1]].fact_head[i]).val = 0

(* C8: a query with both subject and object given, or with neither, is
   refused with the diagnostic and yields no result. *)
C8_InvalidQuery ==
    ret.op = "query_triple" =>
        LET sbj == ret.args[3]
            obj == ret.args[4]
        IN  ((sbj # NULL /\ obj # NULL) \/ (sbj = NULL /\ obj = NULL)) =>
                /\ ret.err = "no query goal"
                /\ ret.list = <<>>
                /\ ~ret.fault

(* C9: a query with one of subject and object given never reads a missing
   argument: stored facts with predicate rel and fewer than two arguments are
   passed over, and every result comes from a fact with at least two. *)
C9_ShortFactsSkipped ==
    (ret.op = "query_triple" /\ (ret.args[3] = NULL) # (ret.args[4] = NULL)) =>
        /\ ~ret.fault
        /\ \A x \in Range(ret.list) :
               \E i \in 1..Len(db[ret.args[1]].fact_head) :
                   LET k == StoredFacts(ret.args[1])[i]
                   IN  /\ k.predicate = ret.args[2]
                       /\ Len(k.argument_head) >= 2
                       /\ x \in {k.argument_head[1], k.argument_head[2]}

(***************************************************************************)
(*                  The AST builders (lib/oxpl/ast.c)                      *)
(*                                                                         *)
(* A builder is an operator on the node heap h.  It returns the heap after *)
(* the call, the returned pointer, the diagnostic it printed, and whether  *)
(* it dereferenced NULL (fault) or walked a sibling chain that never ends  *)
(* (err = "hang").                                                         *)
(***************************************************************************)

(* ---- bounds of the builder model (SpecAst) ---- *)
MaxNodes == 2

AstNames == {"main"}
Opers == {"+", "?"}

AOut(h, val, err) == [h |-> h, val |-> val, err |-> err, fault |-> FALSE]
AFault(h) == [h |-> h, val |-> NULL, err |-> "none", fault |-> TRUE]
AHang(h) == [h |-> h, val |-> NULL, err |-> "hang", fault |-> FALSE]

(* init_node: the new node is the last of the heap. *)
init_node(h, type) ==
    Append(h, [type |-> type, child |-> NULL, sibling |-> NULL, value |-> "",
               leaked |-> FALSE])

(* AST_NODE_CHLD1(node) = x *)
SetChld1(h, node, x) == [h EXCEPT ![node].child = x]

(* AST_NODE_CHLD2(node) = x, which is CHLD1(node)->base.sibling = x *)
Chld2Faults(h, node) == h[node].child = NULL
SetChld2(h, node, x) == [h EXCEPT ![h[node].child].sibling = x]

(* AST_NODE_CHLD3(node) = x, which is CHLD2(node)->base.sibling = x *)
Chld3Faults(h, node) ==
    h[node].child = NULL \/ h[h[node].child].sibling = NULL
SetChld3(h, node, x) == [h EXCEPT ![h[h[node].child].sibling].sibling = x]

(* A builder that stores one child. *)
NewUnary(h, type, c1) ==
    LET h1 == init_node(h, type)
        n  == Len(h1)
    IN  AOut(SetChld1(h1, n, c1), n, "none")

(* A builder that stores two children unconditionally. *)
NewBinary(h, type, c1, c2) ==
    LET h1 == init_node(h, type)
        n  == Len(h1)
        h2 == SetChld1(h1, n, c1)
    IN  IF Chld2Faults(h2, n) THEN AFault(h2)
        ELSE AOut(SetChld2(h2, n, c2), n, "none")

(* A builder that stores its second child only when it is given. *)
NewBinaryOpt(h, type, c1, c2) ==
    LET h1 == init_node(h, type)
        n  == Len(h1)
        h2 == SetChld1(h1, n, c1)
    IN  IF c2 = NULL THEN AOut(h2, n, "none")
        ELSE IF Chld2Faults(h2, n) THEN AFault(h2)
        ELSE AOut(SetChld2(h2, n, c2), n, "none")

ast_new_str(h, value) ==
    LET h1 == init_node(h, "ANT_STR")
    IN  AOut([h1 EXCEPT ![Len(h1)].value = value], Len(h1), "none")

(* An integer constant; the value field holds the literal's digits. *)
ast_new_int(h, value) ==
    LET h1 == init_node(h, "ANT_INT")
    IN  AOut([h1 EXCEPT ![Len(h1)].value = value], Len(h1), "none")

ast_new_scope(h, value) ==
    IF value = NULL THEN AOut(h, NULL, "empty scope")
    ELSE IF h[value].type # "ANT_STR"
         THEN AOut(h, NULL, "scope identifier has to be a string")
    ELSE NewUnary(h, "ANT_SCOPE", value)

ast_new_cmpd(h, head) ==
    IF head = NULL THEN AOut(h, NULL, "empty head")
    ELSE NewUnary(h, "ANT_CMPD", head)

(* The conversion without the test of the node's type. *)
ast_convert_any_seq(h, cmpd_node) ==
    IF cmpd_node = NULL THEN AOut(h, NULL, "none")
    ELSE AOut([h EXCEPT ![cmpd_node].type = "ANT_SEQ"], cmpd_node, "none")

ast_convert_cmpd_seq(h, cmpd_node) ==
    IF cmpd_node = NULL THEN AOut(h, NULL, "none")
    ELSE IF h[cmpd_node].type # "ANT_CMPD"
         THEN AOut(h, NULL, "cmpd_node has not type ANT_CMPD")
    ELSE AOut([h EXCEPT ![cmpd_node].type = "ANT_SEQ"], cmpd_node, "none")

ast_new_call(h, callee, arglist) == NewBinaryOpt(h, "ANT_CALL", callee, arglist)

(* The switch of ast_new_binop: the node type of an operator character.
   The codes 20..27 of enum multicharacter_operator go by their names. *)
BinopType ==
    [c \in {"+", "-", "*", "/", "%", "=", "MCOP_EQ", "MCOP_NEQ", "MCOP_LAND",
            "MCOP_LOR", "MCOP_LEQ", "MCOP_GEQ", "MCOP_SHIFTL", "MCOP_SHIFTR",
            "<", ">", "&", "|", "^"} |->
        CASE c = "+" -> "ANT_BADD"
          [] c = "-" -> "ANT_BSUB"
          [] c = "*" -> "ANT_MUL"
          [] c = "/" -> "ANT_DIV"
          [] c = "%" -> "ANT_MOD"
          [] c = "=" -> "ANT_ASSIGN"
          [] c = "MCOP_EQ" -> "ANT_EQ"
          [] c = "MCOP_NEQ" -> "ANT_NEQ"
          [] c = "MCOP_LAND" -> "ANT_LAND"
          [] c = "MCOP_LOR" -> "ANT_LOR"
          [] c = "MCOP_LEQ" -> "ANT_LEQ"
          [] c = "MCOP_GEQ" -> "ANT_GEQ"
          [] c = "MCOP_SHIFTL" -> "ANT_SHIFTL"
          [] c = "MCOP_SHIFTR" -> "ANT_SHIFTR"
          [] c = "<" -> "ANT_LT"
          [] c = ">" -> "ANT_GT"
          [] c = "&" -> "ANT_BAND"
          [] c = "|" -> "ANT_BOR"
          [] c = "^" -> "ANT_XOR"]

ast_new_binop(h, oper, operand1, operand2) ==
    IF oper \in DOMAIN BinopType THEN NewBinary(h, BinopType[oper], operand1, operand2)
    ELSE AOut(h, NULL, "invalid operator")

(* The operator strings ast_new_binop_s knows and the character each is
   handed on as. *)
BinopChar ==
    [s \in {"==", "!=", "&&", "||", "<=", ">=", "<<", ">>", "<", ">"} |->
        CASE s = "==" -> "MCOP_EQ"
          [] s = "!=" -> "MCOP_NEQ"
          [] s = "&&" -> "MCOP_LAND"
          [] s = "||" -> "MCOP_LOR"
          [] s = "<=" -> "MCOP_LEQ"
          [] s = ">=" -> "MCOP_GEQ"
          [] s = "<<" -> "MCOP_SHIFTL"
          [] s = ">>" -> "MCOP_SHIFTR"
          [] s = "<" -> "<"
          [] s = ">" -> ">"]

ast_new_binop_s(h, oper_s, operand1, operand2) ==
    IF oper_s \in DOMAIN BinopChar
    THEN ast_new_binop(h, BinopChar[oper_s], operand1, operand2)
    ELSE AOut(h, NULL, "unknown binop")

(* The node keeps the type ANT_UNDEFINED it was created with when the
   operator is none of the three; only a warning is printed. *)
ast_new_unop(h, affix, oper, operand) ==
    IF affix \notin {0, 1} THEN AOut(h, NULL, "none")
    ELSE LET type == IF oper = "++"
                     THEN (IF affix = 0 THEN "ANT_PREINC" ELSE "ANT_POSTINC")
                     ELSE IF oper = "--"
                     THEN (IF affix = 0 THEN "ANT_PREDEC" ELSE "ANT_POSTDEC")
                     ELSE IF oper = "-" THEN "ANT_NEGSIGN"
                     ELSE "ANT_UNDEFINED"
             o    == NewUnary(h, type, operand)
         IN  [o EXCEPT !.err = IF type = "ANT_UNDEFINED" THEN "Warning: UNDEF UNOP"
                                ELSE "none"]

ast_new_sig(h, name) == NewUnary(h, "ANT_SIG", name)

ast_new_func(h, sig, block) == NewBinary(h, "ANT_FUNC", sig, block)

ast_new_address(h, scope, param) == NewBinaryOpt(h, "ANT_ADDR", scope, param)

(* The node allocated before the rel check is not freed when rel is NULL. *)
ast_new_tfact(h, subj, rel, obj) ==
    LET h1 == init_node(h, "ANT_TFACT")
        n  == Len(h1)
        h2 == SetChld1(h1, n, rel)
        h3 == SetChld2(h2, n, subj)
    IN  IF rel = NULL
        THEN AOut([h1 EXCEPT ![n].leaked = TRUE], NULL, "fact rel is NULL")
        ELSE IF Chld3Faults(h3, n) THEN AFault(h3)
        ELSE AOut(SetChld3(h3, n, obj), n, "none")

ast_new_transunit(h, first) == NewUnary(h, "ANT_TRANSUNIT", first)

(* A builder that stores three children unconditionally: the second in the
   first one's sibling link, the third in the second one's. *)
NewTernary(h, type, c1, c2, c3) ==
    LET h1 == init_node(h, type)
        n  == Len(h1)
        h2 == SetChld1(h1, n, c1)
    IN  IF Chld2Faults(h2, n) THEN AFault(h2)
        ELSE LET h3 == SetChld2(h2, n, c2)
             IN  IF Chld3Faults(h3, n) THEN AFault(h3)
                 ELSE AOut(SetChld3(h3, n, c3), n, "none")

ast_new_cond(h, cond, then, else_) == NewTernary(h, "ANT_COND", cond, then, else_)

ast_new_while(h, condition, block) == NewBinary(h, "ANT_WHILE", condition, block)

ast_new_for(h, identifier, iterable, block) ==
    NewTernary(h, "ANT_FOR", identifier, iterable, block)

(* The last node of the sibling chain that starts at n, NULL when the chain
   does not end: a chain of more nodes than the heap holds repeats a node. *)
RECURSIVE LastSibling(_, _, _)
LastSibling(h, n, steps) ==
    IF steps > Len(h) THEN NULL
    ELSE IF h[n].sibling = NULL THEN n
    ELSE LastSibling(h, h[n].sibling, steps + 1)

ast_add_seq(h, node, successor) ==
    IF node = NULL THEN AOut(h, NULL, "Can't add seq because node is NULL")
    ELSE LET last == LastSibling(h, node, 1)
         IN  IF last = NULL THEN AHang(h)
             ELSE AOut([h EXCEPT ![last].sibling = successor], node, "none")

ast_scope_add(h, node, successor) ==
    IF node = NULL THEN AOut(h, NULL, "Can't add scope because node is NULL")
    ELSE IF h[node].child = NULL
         THEN AOut([h EXCEPT ![node].child = successor], node, "none")
    ELSE LET last == LastSibling(h, h[node].child, 1)
         IN  IF last = NULL THEN AHang(h)
             ELSE AOut([h EXCEPT ![last].sibling = successor], node, "none")

(* ast_free's traversal from root: the nodes in the order they are freed, and
   whether the recursion is endless (a path longer than the heap). *)
RECURSIVE ast_free(_, _, _)
ast_free(h, r, depth) ==
    IF r = NULL THEN [seq |-> <<>>, endless |-> FALSE]
    ELSE IF depth > Len(h) THEN [seq |-> <<>>, endless |-> TRUE]
    ELSE LET c == ast_free(h, h[r].child, depth + 1)
             s == ast_free(h, h[r].sibling, depth + 1)
         IN  [seq |-> c.seq \o s.seq \o <<r>>,
              endless |-> c.endless \/ s.endless]

(* The child chain of node n: CHLD1, CHLD2, CHLD3, ... cut after one node
   more than the heap holds when it does not end. *)
RECURSIVE SiblingChain(_, _, _)
SiblingChain(h, n, steps) ==
    IF n = NULL \/ steps > Len(h) + 1 THEN <<>>
    ELSE <<n>> \o SiblingChain(h, h[n].sibling, steps + 1)

ChildChain(h, n) == SiblingChain(h, h[n].child, 1)

(* The pointers a caller holds: the nodes builders have returned. *)
NodePtrs == {i \in 1..Len(nodes) : ~nodes[i].leaked}

(* A builder call with result o on a heap of at most max nodes; oper is
   the operator the call was given, if it takes one. *)
ACallOn(max, op, oper, args, o) ==
    /\ ~aret.fault
    /\ aret.err # "hang"
    /\ Len(o.h) <= max
    /\ nodes' = o.h
    /\ aret' = [op |-> op, oper |-> oper, args |-> args, val |-> o.val,
                err |-> o.err, fault |-> o.fault]
    /\ UNCHANGED <<ontoVars, execVars>>

ACall(op, args, o) == ACallOn(MaxNodes, op, "", args, o)

AstInit ==
    /\ db = <<>>
    /\ resources = <<>>
    /\ facts = <<>>
    /\ ret = NoRet
    /\ AstIdle
    /\ ExecIdle

AstNext ==
    \/ \E v \in AstNames : ACall("ast_new_str", <<>>, ast_new_str(nodes, v))
    \/ \E a \in NodePtrs \cup {NULL} :
          \/ ACall("ast_new_scope", <<a>>, ast_new_scope(nodes, a))
          \/ ACall("ast_new_cmpd", <<a>>, ast_new_cmpd(nodes, a))
          \/ ACall("ast_convert_cmpd_seq", <<a>>, ast_convert_cmpd_seq(nodes, a))
          \/ ACall("ast_new_sig", <<a>>, ast_new_sig(nodes, a))
          \/ ACall("ast_new_transunit", <<a>>, ast_new_transunit(nodes, a))
    \/ \E a \in NodePtrs \cup {NULL}, b \in NodePtrs \cup {NULL} :
          \/ ACall("ast_new_call", <<a, b>>, ast_new_call(nodes, a, b))
          \/ ACall("ast_new_func", <<a, b>>, ast_new_func(nodes, a, b))
          \/ ACall("ast_new_address", <<a, b>>, ast_new_address(nodes, a, b))
          \/ ACall("ast_add_seq", <<a, b>>, ast_add_seq(nodes, a, b))
          \/ ACall("ast_scope_add", <<a, b>>, ast_scope_add(nodes, a, b))
          \/ \E o \in Opers :
                ACall("ast_new_binop", <<a, b>>, ast_new_binop(nodes, o, a, b))
    \/ \E a \in NodePtrs \cup {NULL}, b \in NodePtrs \cup {NULL},
          c \in NodePtrs \cup {NULL} :
          ACall("ast_new_tfact", <<a, b, c>>, ast_new_tfact(nodes, a, b, c))

SpecAst == AstInit /\ [][AstNext]_vars

(* The builders of scopes and operator nodes, called with operators they
   know and with others, on a heap of at most MaxOperNodes nodes. *)
MaxOperNodes == 2
Affixes == {0, 1, 2}
UnOpers == {"++", "--", "-", "!", "+"}
BinOpers == {"+", "=", "?"}
BinOperStrs == {"==", "<", "=~"}

OperNext ==
    \/ \E v \in AstNames :
          ACallOn(MaxOperNodes, "ast_new_str", "", <<>>, ast_new_str(nodes, v))
    \/ ACallOn(MaxOperNodes, "ast_new_int", "", <<>>, ast_new_int(nodes, "1"))
    \/ \E a \in NodePtrs \cup {NULL} :
          \/ ACallOn(MaxOperNodes, "ast_new_scope", "", <<a>>, ast_new_scope(nodes, a))
          \/ \E affix \in Affixes, o \in UnOpers :
                ACallOn(MaxOperNodes, "ast_new_unop", o, <<affix, a>>,
                        ast_new_unop(nodes, affix, o, a))
    \/ \E a \in NodePtrs \cup {NULL}, b \in NodePtrs \cup {NULL} :
          \/ \E o \in BinOpers :
                ACallOn(MaxOperNodes, "ast_new_binop", o, <<a, b>>,
                        ast_new_binop(nodes, o, a, b))
          \/ \E o \in BinOperStrs :
                ACallOn(MaxOperNodes, "ast_new_binop_s", o, <<a, b>>,
                        ast_new_binop_s(nodes, o, a, b))

SpecOper == AstInit /\ [][OperNext]_vars

(***************************************************************************)
(*                      Claims about the AST builders                      *)
(***************************************************************************)

NoDuplicates(s) == \A i \in 1..Len(s), j \in 1..Len(s) : s[i] = s[j] => i = j

(* C6: whatever nodes the builders are given, the child-then-sibling
   traversal from any node ends and meets every node at most once. *)
C6_AstAcyclic ==
    \A r \in 1..Len(nodes) :
        LET f == ast_free(nodes, r, 1)
        IN  ~f.endless /\ NoDuplicates(f.seq)

(* C7: the function node ast_new_func returns for a signature node has a
   child chain of exactly two nodes, whatever the body. *)
C7_FuncArity ==
    (/\ aret.op = "ast_new_func"
     /\ aret.val # NULL
     /\ nodes[aret.args[1]].type = "ANT_SIG")
        => Len(ChildChain(nodes, aret.val)) = 2

(***************************************************************************)
(*          The parser's semantic actions (lib/oxpl/parse.y)               *)
(*                                                                         *)
(* A program text is a sequence of top-level statements: a function        *)
(* definition with its body calls, a triple fact, or a class declaration.  *)
(* Parse builds its tree with the builders, in the order bison reduces.    *)
(***************************************************************************)

(* ---- bounds of the executor model (SpecExec, SpecExecFair) ---- *)
MaxTop == 3
MaxDepth == 4

FnNames == {"main", "setup"}
(* A call statement of the program text: the callee is a scope path (its
   segments) or a string constant, the argument list is empty, one string
   constant, one integer constant, or two string constants. *)
CallOf(ckind, callee, akind, arg) ==
    [ckind |-> ckind, callee |-> callee, akind |-> akind, arg |-> arg]
CallPrint == CallOf("scope", <<"print">>, "str", "hi")
CallUnknown == CallOf("scope", <<"unknown_fn">>, "none", NullStr)
Bodies == {<<>>, <<CallPrint>>, <<CallPrint, CallUnknown>>}

Item(kind, name, b, sbj, rel, obj) ==
    [kind |-> kind, name |-> name, body |-> b, sbj |-> sbj, rel |-> rel, obj |-> obj]
FuncItems == {Item("func", n, b, NullStr, NullStr, NullStr) : n \in FnNames, b \in Bodies}
PrecItems ==
    {Item("tfact", NullStr, <<>>, s, "isPreceededBy", o) : s \in FnNames, o \in FnNames}
ProbeItems ==
    {Item("tfact", NullStr, <<>>, s, "printsATestMessageWhenCalled", NullStr) : s \in FnNames}
ClassItems == {Item("class", NullStr, <<>>, NullStr, NullStr, NullStr)}
Items == FuncItems \cup PrecItems \cup ProbeItems \cup ClassItems

(* Then(r, F) is F(r) with r evaluated once: the result of one call handed
   to the calls that follow it. *)
Then(r, F(_)) == CHOOSE y \in {F(x) : x \in {r}} : TRUE

(* scope: IDENTIFIER *)
ParseScope(h, name) ==
    Then(ast_new_str(h, name), LAMBDA s : ast_new_scope(s.h, s.val))

(* addr: scope *)
ParseAddr(h, name) ==
    Then(ParseScope(h, name), LAMBDA s : ast_new_address(s.h, s.val, NULL))

(* scope: scope SCOPE_OP IDENTIFIER, for the segments from the i-th on *)
RECURSIVE ParseScopeAdd(_, _, _, _)
ParseScopeAdd(h, scope, segs, i) ==
    IF i > Len(segs) THEN AOut(h, scope, "none")
    ELSE Then(ast_new_str(h, segs[i]), LAMBDA s :
         Then(ast_scope_add(s.h, scope, s.val), LAMBDA a :
         ParseScopeAdd(a.h, a.val, segs, i + 1)))

ParseScopePath(h, segs) ==
    Then(ParseScope(h, segs[1]), LAMBDA s : ParseScopeAdd(s.h, s.val, segs, 2))

(* primary_expr: scope | const *)
ParsePrimaryExpr(h, c) ==
    IF c.ckind = "scope" THEN ParseScopePath(h, c.callee)
    ELSE ast_new_str(h, c.callee[1])

(* callarglist: conditional_expr | callarglist ',' conditional_expr; the
   second alternative has no action, its value is that of the list before
   the comma and the node of the expression after it stays unlinked. *)
ParseCallArgList(h, c) ==
    IF c.akind = "int" THEN ast_new_int(h, c.arg)
    ELSE Then(ast_new_str(h, c.arg), LAMBDA first :
         IF c.akind = "two" THEN AOut(ast_new_str(first.h, c.arg).h, first.val, "none")
         ELSE first)

(* postfix_expr: postfix_expr '(' callarglist ')' | postfix_expr '(' ')' *)
ParseCall(h, c) ==
    Then(ParsePrimaryExpr(h, c), LAMBDA callee :
    Then(IF c.akind = "none" THEN AOut(callee.h, NULL, "none")
         ELSE ParseCallArgList(callee.h, c), LAMBDA arg :
    ast_new_call(arg.h, callee.val, arg.val)))

(* imper_block_stmt: imper_stmt | imper_block_stmt imper_stmt *)
RECURSIVE ParseBlockStmt(_, _, _, _)
ParseBlockStmt(h, calls, i, head) ==
    IF i > Len(calls) THEN AOut(h, head, "none")
    ELSE Then(ParseCall(h, calls[i]), LAMBDA c :
         IF i = 1 THEN ParseBlockStmt(c.h, calls, 2, c.val)
         ELSE Then(ast_add_seq(c.h, head, c.val), LAMBDA a :
              ParseBlockStmt(a.h, calls, i + 1, a.val)))

(* imper_block: '{' imper_block_stmt '}' | '{' '}' *)
ParseImperBlock(h, calls) ==
    IF calls = <<>> THEN AOut(h, NULL, "none") ELSE ParseBlockStmt(h, calls, 1, NULL)

(* func: sig imper_block;  sig: FN IDENTIFIER fn_arglist sig_ret *)
ParseFunc(h, it) ==
    Then(ast_new_str(h, it.name), LAMBDA n :
    Then(ast_new_sig(n.h, n.val), LAMBDA sig :
    Then(ParseImperBlock(sig.h, it.body), LAMBDA b :
    ast_new_func(b.h, sig.val, b.val))))

(* triple_stmt: triple_subj scope | triple_subj scope triple_obj *)
ParseTripleStmt(h, it) ==
    Then(ParseAddr(h, it.sbj), LAMBDA subj :
    Then(ParseScope(subj.h, it.rel), LAMBDA rel :
    Then(IF it.obj = NullStr THEN AOut(rel.h, NULL, "none")
         ELSE ParseAddr(rel.h, it.obj), LAMBDA obj :
    ast_new_tfact(obj.h, subj.val, rel.val, obj.val))))

(* stmt: decl | func;  decl: fact | class_sel class_decl_block *)
ParseStmt(h, it) ==
    IF it.kind = "func" THEN ParseFunc(h, it)
    ELSE IF it.kind = "tfact" THEN ParseTripleStmt(h, it)
    ELSE AOut(h, NULL, "none")

(* tunit: stmt | tunit stmt *)
RECURSIVE ParseTunit(_, _, _, _, _)
ParseTunit(h, prog, i, head, errs) ==
    IF i > Len(prog) THEN [h |-> h, val |-> head, errs |-> errs]
    ELSE Then(ParseStmt(h, prog[i]), LAMBDA s :
         IF i = 1 THEN ParseTunit(s.h, prog, 2, s.val, errs)
         ELSE Then(ast_add_seq(s.h, head, s.val), LAMBDA a :
              ParseTunit(a.h, prog, i + 1, a.val,
                         IF a.err = "none" THEN errs ELSE Append(errs, a.err))))

(* start: %empty | tunit *)
Parse(prog) ==
    IF prog = <<>> THEN [h |-> <<>>, val |-> NULL, errs |-> <<>>]
    ELSE Then(ParseTunit(<<>>, prog, 1, NULL, <<>>), LAMBDA u :
         Then(ast_new_transunit(u.h, u.val), LAMBDA r :
         [h |-> r.h, val |-> r.val, errs |-> u.errs]))

RECURSIVE SeqsUpTo(_, _)
SeqsUpTo(S, n) ==
    IF n = 0 THEN {<<>>}
    ELSE LET shorter == SeqsUpTo(S, n - 1)
         IN  shorter \cup {Append(s, x) : s \in shorter, x \in S}

(***************************************************************************)
(* A builder called once on up to three arguments, each absent or the head *)
(* of a chain of up to MaxChain nodes linked by ast_add_seq (a block of     *)
(* statements, an argument list); the chains share no node.                *)
(***************************************************************************)
MaxChain == 2

RECURSIVE BuildChain(_, _, _)
BuildChain(h, head, len) ==
    IF len = 0 THEN AOut(h, head, "none")
    ELSE Then(ast_new_int(h, "1"), LAMBDA n :
         IF head = NULL THEN BuildChain(n.h, n.val, len - 1)
         ELSE Then(ast_add_seq(n.h, head, n.val), LAMBDA a :
              BuildChain(a.h, a.val, len - 1)))

LinkInit ==
    \E l1 \in 0..MaxChain, l2 \in 0..MaxChain, l3 \in 0..MaxChain :
        LET c1 == BuildChain(<<>>, NULL, l1)
            c2 == BuildChain(c1.h, NULL, l2)
            c3 == BuildChain(c2.h, NULL, l3)
        IN  /\ nodes = c3.h
            /\ aret = [NoARet EXCEPT !.args = <<c1.val, c2.val, c3.val>>]
            /\ db = <<>>
            /\ resources = <<>>
            /\ facts = <<>>
            /\ ret = NoRet
            /\ ExecIdle

LinkCall(op, args, o) == ACallOn(Len(nodes) + 1, op, "", args, o)

LinkNext ==
    /\ aret.op = "none"
    /\ \E a \in {aret.args[1]}, b \in {aret.args[2]}, c \in {aret.args[3]} :
          \/ LinkCall("ast_new_cond", <<a, b, c>>, ast_new_cond(nodes, a, b, c))
          \/ LinkCall("ast_new_for", <<a, b, c>>, ast_new_for(nodes, a, b, c))
          \/ LinkCall("ast_new_tfact", <<a, b, c>>, ast_new_tfact(nodes, a, b, c))
          \/ LinkCall("ast_new_while", <<a, b>>, ast_new_while(nodes, a, b))
          \/ LinkCall("ast_new_call", <<a, b>>, ast_new_call(nodes, a, b))
          \/ LinkCall("ast_new_binop", <<a, b>>, ast_new_binop(nodes, "+", a, b))
          \/ LinkCall("ast_add_seq", <<a, b>>, ast_add_seq(nodes, a, b))

SpecLink == LinkInit /\ [][LinkNext]_vars

(***************************************************************************)
(*                        The executor (src/exec.c)                        *)
(***************************************************************************)

(* The value of the string node under a node's first child: the value
   field of CHLD1(CHLD1(n)) cast to a string node. *)
NameUnder(h, n) == h[h[h[n].child].child].value

RECURSIVE FindResourceScan(_, _, _, _)
FindResourceScan(st, d, name, i) ==
    IF i > Len(st.db[d].resource_head) THEN NULL
    ELSE IF st.resources[st.db[d].resource_head[i]].name = name
         THEN st.db[d].resource_head[i]
    ELSE FindResourceScan(st, d, name, i + 1)

ontology_find_resource(st, d, name) ==
    IF d = NULL \/ name = NullStr THEN NULL ELSE FindResourceScan(st, d, name, 1)

(* Resources created with the names of FindNames, the empty name the shell
   gives for an empty input line among them, added to the database and
   looked up by name. *)
FindMaxRes == 3
FindMaxList == 3
FindNames == {"a", "b", ""}

CallFindResource(d, name) ==
    CallNamed("find_resource", name, <<d>>,
              Out(Store, ontology_find_resource(Store, d, name), "none"))

FindNext ==
    \/ \E name \in FindNames :
          Len(resources) < FindMaxRes /\ CallCreateResource(name)
    \/ \E d \in DbPtrs \cup {NULL}, r \in ResPtrs \cup {NULL} :
          /\ (d # NULL /\ r # NULL) => Len(db[d].resource_head) < FindMaxList
          /\ CallAddResource(d, r)
    \/ \E d \in DbPtrs \cup {NULL}, name \in FindNames \cup {NullStr} :
          CallFindResource(d, name)

SpecFind == OntoInit /\ [][FindNext]_vars

(* ast_validate's loop.  The identifier's type is read through
   CHLD1(CHLD1(cur)) without a test: with an absent signature or an absent
   identifier that is a read through NULL, reported as a fault (nothing is
   returned). *)
RECURSIVE ValidateScan(_, _, _)
ValidateScan(h, cur, main_found) ==
    IF cur = NULL
    THEN IF main_found THEN [val |-> 0, err |-> "none", fault |-> FALSE]
         ELSE [val |-> 1, err |-> "[A] Error: missing main function", fault |-> FALSE]
    ELSE IF h[cur].type = "ANT_FUNC"
         THEN IF h[cur].child = NULL \/ h[h[cur].child].child = NULL
              THEN [val |-> 1, err |-> "none", fault |-> TRUE]
              ELSE IF h[h[h[cur].child].child].type = "ANT_STR"
              THEN ValidateScan(h, h[cur].sibling,
                                main_found \/ NameUnder(h, cur) = "main")
              ELSE [val |-> 1, err |-> "[A] Error: invalid fn sig", fault |-> FALSE]
    ELSE ValidateScan(h, h[cur].sibling, main_found)

(* A validation that stops looking once main is found. *)
RECURSIVE ValidateUntilMain(_, _)
ValidateUntilMain(h, cur) ==
    IF cur = NULL
    THEN [val |-> 1, err |-> "[A] Error: missing main function", fault |-> FALSE]
    ELSE IF h[cur].type = "ANT_FUNC"
         THEN IF h[cur].child = NULL \/ h[h[cur].child].child = NULL
              THEN [val |-> 1, err |-> "none", fault |-> TRUE]
              ELSE IF h[h[h[cur].child].child].type = "ANT_STR"
              THEN IF NameUnder(h, cur) = "main"
                   THEN [val |-> 0, err |-> "none", fault |-> FALSE]
                   ELSE ValidateUntilMain(h, h[cur].sibling)
              ELSE [val |-> 1, err |-> "[A] Error: invalid fn sig", fault |-> FALSE]
    ELSE ValidateUntilMain(h, h[cur].sibling)

ast_validate_until_main(h, r) ==
    IF r = NULL THEN [val |-> 1, err |-> "Error: AST empty", fault |-> FALSE]
    ELSE ValidateUntilMain(h, h[r].child)

ast_validate(h, r) ==
    IF r = NULL THEN [val |-> 1, err |-> "Error: AST empty", fault |-> FALSE]
    ELSE ValidateScan(h, h[r].child, FALSE)

(***************************************************************************)
(* ast_validate on translation units made with the builders: top-level     *)
(* function definitions whose signature holds a string, an integer or no   *)
(* identifier, or that have no signature, and a signature alone (the       *)
(* declaration fn main();), up to MaxValTop of them.                       *)
(***************************************************************************)
MaxValTop == 3
ValShapes == {"main", "setup", "int", "no_ident", "no_sig", "decl_main"}

BuildValIdent(h, shape) ==
    IF shape = "int" THEN ast_new_int(h, "1")
    ELSE IF shape = "no_ident" THEN AOut(h, NULL, "none")
    ELSE IF shape = "decl_main" THEN ast_new_str(h, "main")
    ELSE ast_new_str(h, shape)

BuildValStmt(h, shape) ==
    IF shape = "no_sig" THEN ast_new_func(h, NULL, NULL)
    ELSE Then(BuildValIdent(h, shape), LAMBDA ident :
         Then(ast_new_sig(ident.h, ident.val), LAMBDA sig :
         IF shape = "decl_main" THEN sig
         ELSE ast_new_func(sig.h, sig.val, NULL)))

RECURSIVE BuildValTunit(_, _, _, _)
BuildValTunit(h, shapes, i, head) ==
    IF i > Len(shapes) THEN AOut(h, head, "none")
    ELSE Then(BuildValStmt(h, shapes[i]), LAMBDA s :
         IF i = 1 THEN BuildValTunit(s.h, shapes, 2, s.val)
         ELSE Then(ast_add_seq(s.h, head, s.val), LAMBDA a :
              BuildValTunit(a.h, shapes, i + 1, a.val)))

(* No root at all, or a translation unit over the chain (an empty one too). *)
ValInit ==
    \E shapes \in SeqsUpTo(ValShapes, MaxValTop), present \in BOOLEAN :
        LET u == BuildValTunit(<<>>, shapes, 1, NULL)
            r == ast_new_transunit(u.h, u.val)
        IN  /\ (~present) => shapes = <<>>
            /\ nodes = IF present THEN r.h ELSE <<>>
            /\ root = IF present THEN r.val ELSE NULL
            /\ aret = NoARet
            /\ pc = "built"
            /\ stack = <<>>
            /\ stdout = <<>>
            /\ stderr = <<>>
            /\ log = <<>>
            /\ db = <<>>
            /\ resources = <<>>
            /\ facts = <<>>
            /\ ret = NoRet

CallValidate ==
    /\ pc = "built"
    /\ \E v \in {ast_validate(nodes, root)} :
          /\ aret' = [NoARet EXCEPT !.op = "ast_validate", !.args = <<root>>,
                                    !.val = v.val, !.err = v.err, !.fault = v.fault]
          /\ stderr' = IF v.err = "none" THEN <<>> ELSE <<v.err>>
    /\ pc' = "validated"
    /\ UNCHANGED <<ontoVars, nodes, root, stack, stdout, log>>

SpecValidate == ValInit /\ [][CallValidate]_vars

(* get_fn's do-while over the top-level chain; cur is a node. *)
RECURSIVE GetFnScan(_, _, _)
GetFnScan(h, cur, name) ==
    IF /\ h[cur].type = "ANT_FUNC"
       /\ h[h[h[cur].child].child].type = "ANT_STR"
       /\ NameUnder(h, cur) = name
    THEN cur
    ELSE IF h[cur].sibling = NULL THEN NULL
    ELSE GetFnScan(h, h[cur].sibling, name)

(* get_fn reads CHLD1(ast)'s type without a test: GetFnFaults tells when
   that is a NULL dereference. *)
GetFnFaults(h, ast) == ast # NULL /\ h[ast].child = NULL

(* get_fn returning the first function definition, whatever its name. *)
get_fn_any(h, ast, name) ==
    IF ast = NULL \/ h[ast].child = NULL THEN NULL
    ELSE LET fns == SelectSeq(SiblingChain(h, h[ast].child, 1),
                              LAMBDA n : h[n].type = "ANT_FUNC")
         IN  IF fns = <<>> THEN NULL ELSE Head(fns)

get_fn(h, ast, name) ==
    IF ast = NULL \/ GetFnFaults(h, ast) THEN NULL ELSE GetFnScan(h, h[ast].child, name)

add_predef_fact(st, d, name) ==
    Then(ontology_create_resource(st, name), LAMBDA r :
    ontology_add_resource(r.st, d, r.val).st)

populate_kb(st, d) ==
    Then(add_predef_fact(st, d, "isPreceededBy"), LAMBDA st1 :
    add_predef_fact(st1, d, "printsATestMessageWhenCalled"))

(* collect_facts, first loop: a resource for every function definition. *)
RECURSIVE CollectFunctions(_, _, _, _)
CollectFunctions(st, h, d, cur) ==
    Then(IF h[cur].type = "ANT_FUNC"
         THEN add_predef_fact(st, d, NameUnder(h, cur))
         ELSE st, LAMBDA st1 :
    IF h[cur].sibling = NULL THEN st1
    ELSE CollectFunctions(st1, h, d, h[cur].sibling))

(* The second loop's body treating an unresolved object like an unresolved
   subject. *)
CollectTFactAllParts(st, h, d, cur) ==
    LET rel     == h[cur].child
        sbj     == h[rel].sibling
        obj     == h[sbj].sibling
        relres  == ontology_find_resource(st, d, h[h[rel].child].value)
        sbjres  == ontology_find_resource(st, d, NameUnder(h, sbj))
        objres  == IF obj # NULL THEN ontology_find_resource(st, d, NameUnder(h, obj))
                   ELSE NULL
    IN  IF relres = NULL \/ sbjres = NULL \/ (obj # NULL /\ objres = NULL)
        THEN [st |-> st, err |-> "Warning: unknown sentence part"]
        ELSE Then(ontology_create_fact(st, d, relres), LAMBDA f :
             Then(ontology_add_argument_to_fact(f.st, d, f.val, sbjres), LAMBDA a1 :
             Then(IF objres # NULL
                  THEN ontology_add_argument_to_fact(a1.st, d, f.val, objres)
                  ELSE a1, LAMBDA a2 :
             [st |-> ontology_add_fact(a2.st, d, f.val).st, err |-> "none"])))

(* collect_facts, the body of the second loop for one ANT_TFACT node. *)
CollectTFact(st, h, d, cur) ==
    LET rel     == h[cur].child
        sbj     == h[rel].sibling
        obj     == h[sbj].sibling
        relname == h[h[rel].child].value
        sbjname == NameUnder(h, sbj)
        objname == IF obj # NULL THEN NameUnder(h, obj) ELSE NullStr
    IN  Then(<<ontology_find_resource(st, d, relname),
               ontology_find_resource(st, d, sbjname),
               ontology_find_resource(st, d, objname)>>, LAMBDA res :
        LET relres == res[1]
            sbjres == res[2]
            objres == res[3]
        IN  IF relres = NULL \/ sbjres = NULL
            THEN [st |-> st, err |-> "Warning: unknown sentence part"]
            ELSE Then(ontology_create_fact(st, d, relres), LAMBDA f :
                 Then(ontology_add_argument_to_fact(f.st, d, f.val, sbjres), LAMBDA a1 :
                 Then(IF objres # NULL
                      THEN ontology_add_argument_to_fact(a1.st, d, f.val, objres)
                      ELSE a1, LAMBDA a2 :
                 [st |-> ontology_add_fact(a2.st, d, f.val).st, err |-> "none"]))))

RECURSIVE CollectTFacts(_, _, _, _, _)
CollectTFacts(st, h, d, cur, errs) ==
    Then(IF h[cur].type = "ANT_TFACT" THEN CollectTFact(st, h, d, cur)
         ELSE [st |-> st, err |-> "none"], LAMBDA r :
    Then(IF r.err = "none" THEN errs ELSE Append(errs, r.err), LAMBDA e :
    IF h[cur].sibling = NULL THEN [st |-> r.st, errs |-> e, fault |-> FALSE]
    ELSE CollectTFacts(r.st, h, d, h[cur].sibling, e)))

(* One loop that registers functions and resolves triple facts as it meets
   them. *)
RECURSIVE CollectInOnePass(_, _, _, _, _)
CollectInOnePass(st, h, d, cur, errs) ==
    Then(IF h[cur].type = "ANT_FUNC"
         THEN [st |-> add_predef_fact(st, d, NameUnder(h, cur)), err |-> "none"]
         ELSE IF h[cur].type = "ANT_TFACT" THEN CollectTFact(st, h, d, cur)
         ELSE [st |-> st, err |-> "none"], LAMBDA r :
    Then(IF r.err = "none" THEN errs ELSE Append(errs, r.err), LAMBDA e :
    IF h[cur].sibling = NULL THEN [st |-> r.st, errs |-> e, fault |-> FALSE]
    ELSE CollectInOnePass(r.st, h, d, h[cur].sibling, e)))

collect_facts_in_one_pass(st, h, r, d) ==
    IF r = NULL THEN [st |-> st, errs |-> <<>>, fault |-> FALSE]
    ELSE IF h[r].child = NULL THEN [st |-> st, errs |-> <<>>, fault |-> TRUE]
    ELSE CollectInOnePass(st, h, d, h[r].child, <<>>)

collect_facts(st, h, r, d) ==
    IF r = NULL THEN [st |-> st, errs |-> <<>>, fault |-> FALSE]
    ELSE IF h[r].child = NULL THEN [st |-> st, errs |-> <<>>, fault |-> TRUE]
    ELSE Then(CollectFunctions(st, h, d, h[r].child), LAMBDA st1 :
         CollectTFacts(st1, h, d, h[r].child, <<>>))

(* print without the test of the argument's sibling. *)
lang_builtin_fn_print_first(h, args) ==
    IF args = NULL
    THEN [stdout |-> <<>>, stderr |-> <<"Error: print: argument missing">>]
    ELSE IF h[args].type # "ANT_STR"
    THEN [stdout |-> <<>>, stderr |-> <<"Error: print: wrong type of argument">>]
    ELSE [stdout |-> <<h[args].value>>, stderr |-> <<>>]

(* What a call of the built-in writes to standard output and to stderr. *)
lang_builtin_fn_print(h, args) ==
    IF args = NULL
    THEN [stdout |-> <<>>, stderr |-> <<"Error: print: argument missing">>]
    ELSE IF h[args].type # "ANT_STR"
    THEN [stdout |-> <<>>, stderr |-> <<"Error: print: wrong type of argument">>]
    ELSE IF h[args].sibling # NULL
    THEN [stdout |-> <<>>, stderr |-> <<"Error: print: too many arguments">>]
    ELSE [stdout |-> <<h[args].value>>, stderr |-> <<>>]

lang_builtin_fn_println(h, args) ==
    IF args = NULL
    THEN [stdout |-> <<>>, stderr |-> <<"Error: print: argument missing">>]
    ELSE IF h[args].type # "ANT_STR"
    THEN [stdout |-> <<>>, stderr |-> <<"Error: print: wrong type of argument">>]
    ELSE IF h[args].sibling # NULL
    THEN [stdout |-> <<>>, stderr |-> <<"Error: print: too many arguments">>]
    ELSE [stdout |-> <<h[args].value \o "\n">>, stderr |-> <<>>]

execute_call(h, call_node) ==
    LET call_expr == h[call_node].child
        args      == h[call_expr].sibling
    IN  IF /\ h[call_expr].type = "ANT_SCOPE"
           /\ h[call_expr].child # NULL
           /\ h[h[call_expr].child].type = "ANT_STR"
           /\ h[h[call_expr].child].sibling = NULL
        THEN LET name == h[h[call_expr].child].value
             IN  IF name = "print" THEN lang_builtin_fn_print(h, args)
                 ELSE IF name = "println" THEN lang_builtin_fn_println(h, args)
                 ELSE [stdout |-> <<"[E] unknown function...\n">>, stderr |-> <<>>]
        ELSE [stdout |-> <<>>, stderr |-> <<>>]

(* An entry that prints the message when any fact with the predicate
   printsATestMessageWhenCalled is stored. *)
execute_function_entry_any_probe(st, h, d, fn_node, ub) ==
    Then(<<ontology_find_resource(st, d, "printsATestMessageWhenCalled"),
           ontology_find_resource(st, d, NameUnder(h, fn_node)),
           ontology_find_resource(st, d, "isPreceededBy")>>, LAMBDA res :
    Then(ontology_query_triple(st, d, res[3], res[2], NULL, ub), LAMBDA q :
    [rocks |-> \E i \in 1..Len(st.db[d].fact_head) :
                  st.facts[st.db[d].fact_head[i]].predicate = res[1],
     qres  |-> q.list,
     fault |-> q.fault,
     st    |-> st]))

(* The probe fact, the most recently allocated fact, is released: the heap
   is as before its allocation. *)
ReleaseProbe(st, fact) ==
    IF fact = NULL THEN st ELSE [st EXCEPT !.facts = SubSeq(@, 1, fact - 1)]

(* An entry that stores its probe fact in the knowledge base. *)
execute_function_entry_storing_probe(st, h, d, fn_node, ub) ==
    Then(<<ontology_find_resource(st, d, "printsATestMessageWhenCalled"),
           ontology_find_resource(st, d, NameUnder(h, fn_node)),
           ontology_find_resource(st, d, "isPreceededBy")>>, LAMBDA res :
    Then(ontology_create_fact(st, d, res[1]), LAMBDA f :
    Then(ontology_add_argument_to_fact(f.st, d, f.val, res[2]), LAMBDA a :
    Then(ontology_query_triple(st, d, res[3], res[2], NULL, ub), LAMBDA q :
    [rocks |-> ontology_check_fact(a.st, d, f.val).val = 0,
     qres  |-> q.list,
     fault |-> q.fault,
     st    |-> ontology_add_fact(a.st, d, f.val).st]))))

(* execute_function up to the predecessor loop: whether the probe fact
   printsATestMessageWhenCalled(name) is stored, the query result, and the
   store after the probe fact was created, filled, checked and released. *)
execute_function_entry(st, h, d, fn_node, ub) ==
    Then(<<ontology_find_resource(st, d, "printsATestMessageWhenCalled"),
           ontology_find_resource(st, d, NameUnder(h, fn_node)),
           ontology_find_resource(st, d, "isPreceededBy")>>, LAMBDA res :
    Then(ontology_create_fact(st, d, res[1]), LAMBDA f :
    Then(ontology_add_argument_to_fact(f.st, d, f.val, res[2]), LAMBDA a :
    Then(ontology_query_triple(st, d, res[3], res[2], NULL, ub), LAMBDA q :
    [rocks |-> ontology_check_fact(a.st, d, f.val).val = 0,
     qres  |-> q.list,
     fault |-> q.fault,
     st    |-> ReleaseProbe(a.st, f.val)]))))

(* The body loop placed before the predecessor loop. *)
execute_function_body_first(fr) ==
    IF ~fr.inbody THEN "body"
    ELSE IF fr.cur # NULL THEN "stmt"
    ELSE IF fr.qres # <<>> THEN "pred"
    ELSE "return"

(* What the innermost execute_function call does next: its predecessor loop
   comes first, then the body loop over the signature's siblings. *)
execute_function_next(fr) ==
    IF fr.qres # <<>> THEN "pred"
    ELSE IF ~fr.inbody THEN "body"
    ELSE IF fr.cur # NULL THEN "stmt"
    ELSE "return"

(* The body loop stopped by a call to an unknown function. *)
execute_function_stop_on_unknown(h, cur) ==
    [call |-> h[cur].type = "ANT_CALL",
     next |-> IF h[cur].type = "ANT_CALL"
                 /\ execute_call(h, cur).stdout = <<"[E] unknown function...\n">>
              THEN NULL ELSE h[cur].sibling]

(* One turn of execute_function's body loop at cur: whether cur is
   dispatched as a call, and the node the loop goes to. *)
execute_function_turn(h, cur) ==
    [call |-> h[cur].type = "ANT_CALL", next |-> h[cur].sibling]

Top == stack[Len(stack)]
ReplaceTop(fr) == [stack EXCEPT ![Len(stack)] = fr]
Kb == 1

(* A call execute_function(fn_node, kb, root) made with the stack stk. *)
Enter(stk, fn_node) ==
    IF fn_node = NULL \/ nodes[fn_node].type # "ANT_FUNC"
    THEN /\ stack' = stk
         /\ UNCHANGED <<stdout, db, resources, facts>>
    ELSE \E ub \in UbOutcomes :
            \E e \in {execute_function_entry(Store, nodes, Kb, fn_node, ub)} :
                /\ Len(stk) < MaxDepth
                /\ stack' = Append(stk, [fn |-> fn_node, qres |-> e.qres,
                                         cur |-> nodes[fn_node].child,
                                         inbody |-> FALSE])
                /\ stdout' = IF e.rocks THEN Append(stdout, "OXPL rocks!\n")
                             ELSE stdout
                /\ db' = e.st.db
                /\ resources' = e.st.resources
                /\ facts' = e.st.facts

(* exec_program up to execute: validate (the result is not looked at),
   create the knowledge base, populate it, collect the program's facts. *)
ExecBuildOntology ==
    /\ pc = "parsed"
    /\ \E v \in {ast_validate(nodes, root)},
          c \in {Then(ontology_create_database(EmptyStore), LAMBDA kb :
                 Then(populate_kb(kb.st, kb.val), LAMBDA st1 :
                 collect_facts(st1, nodes, root, kb.val)))} :
           /\ db' = c.st.db
           /\ resources' = c.st.resources
           /\ facts' = c.st.facts
           /\ stderr' = stderr \o (IF v.err = "none" THEN <<>> ELSE <<v.err>>) \o c.errs
           /\ pc' = IF c.fault THEN "crashed" ELSE "populated"
    /\ UNCHANGED <<ret, astVars, root, stack, stdout, log>>

(* exec_program's return value: 0 after the clean-up, whatever ast_validate
   and execute returned. *)
exec_program_return(validate_val, execute_val) == 0

(* What execute returns. *)
execute_return(main_fn_node) == IF main_fn_node = NULL THEN 1 ELSE 0

(* exec_program returns to its caller. *)
Returned(val) == [NoRet EXCEPT !.op = "exec_program", !.val = val]

MainFnNode == get_fn(nodes, root, "main")

(* execute: find main and call execute_function on it. *)
ExecExecute ==
    /\ pc = "populated"
    /\ IF GetFnFaults(nodes, root)
       THEN pc' = "crashed" /\ UNCHANGED <<stack, stdout, stderr, ret, db, resources, facts>>
       ELSE LET main_fn_node == get_fn(nodes, root, "main")
            IN  IF main_fn_node = NULL
                THEN /\ stderr' = Append(stderr, "[E] Error: main function not present")
                     /\ pc' = "done"
                     /\ ret' = Returned(exec_program_return(ast_validate(nodes, root).val,
                                                             execute_return(main_fn_node)))
                     /\ UNCHANGED <<stack, stdout, db, resources, facts>>
                ELSE /\ Enter(stack, main_fn_node)
                     /\ pc' = "running"
                     /\ UNCHANGED <<stderr, ret>>
    /\ UNCHANGED <<astVars, root, log>>

(* The predecessor loop: call the function named by the next query result. *)
ExecPredecessor ==
    /\ pc = "running"
    /\ stack # <<>>
    /\ execute_function_next(Top) = "pred"
    /\ Enter(ReplaceTop([Top EXCEPT !.qres = Tail(@)]),
             get_fn(nodes, root, resources[Head(Top.qres)].name))
    /\ UNCHANGED <<ret, astVars, pc, root, stderr, log>>

(* AST_NODE_NEXT_SIBL(cur): from the signature to the body. *)
ExecBody ==
    /\ pc = "running"
    /\ stack # <<>>
    /\ execute_function_next(Top) = "body"
    /\ stack' = ReplaceTop([Top EXCEPT !.cur = nodes[Top.cur].sibling, !.inbody = TRUE])
    /\ UNCHANGED <<ontoVars, astVars, pc, root, stdout, stderr, log>>

(* One turn of the body loop: dispatch cur if it is a call, go to its sibling. *)
ExecStatement ==
    /\ pc = "running"
    /\ stack # <<>>
    /\ execute_function_next(Top) = "stmt"
    /\ \E turn \in {execute_function_turn(nodes, Top.cur)} :
          /\ IF turn.call
             THEN LET o == execute_call(nodes, Top.cur)
                  IN  /\ stdout' = stdout \o o.stdout
                      /\ stderr' = stderr \o o.stderr
                      /\ log' = Append(log, <<Top.fn, Top.cur>>)
             ELSE UNCHANGED <<stdout, stderr, log>>
          /\ stack' = ReplaceTop([Top EXCEPT !.cur = turn.next])
    /\ UNCHANGED <<ontoVars, astVars, pc, root>>

(* execute_function returns; when it was main's, exec_program cleans up. *)
ExecReturn ==
    /\ pc = "running"
    /\ stack # <<>>
    /\ execute_function_next(Top) = "return"
    /\ stack' = SubSeq(stack, 1, Len(stack) - 1)
    /\ pc' = IF Len(stack) = 1 THEN "done" ELSE pc
    /\ ret' = IF Len(stack) = 1
              THEN Returned(exec_program_return(ast_validate(nodes, root).val,
                                                execute_return(MainFnNode)))
              ELSE ret
    /\ UNCHANGED <<db, resources, facts, astVars, root, stdout, stderr, log>>

(* The steps of a running execute_function call. *)
ExecRun ==
    \/ ExecPredecessor
    \/ ExecBody
    \/ ExecStatement
    \/ ExecReturn

ExecNext ==
    \/ ExecBuildOntology
    \/ ExecExecute
    \/ ExecRun

ExecInitFrom(progs) ==
    \E prog \in progs :
        LET p == Parse(prog)
        IN  /\ nodes = p.h
            /\ root = p.val
            /\ stderr = p.errs
            /\ aret = NoARet
            /\ pc = "parsed"
            /\ stack = <<>>
            /\ stdout = <<>>
            /\ log = <<>>
            /\ db = <<>>
            /\ resources = <<>>
            /\ facts = <<>>
            /\ ret = NoRet

ExecInitOf(items, maxTop) == ExecInitFrom(SeqsUpTo(items, maxTop))

ExecInit == ExecInitOf(Items, MaxTop)

SpecExec == ExecInit /\ [][ExecNext]_vars

(* exec_program under a scheduler that lets the process run, on programs
   of functions and isPreceededBy facts. *)
FairMaxTop == 4
FairItems ==
    {it \in FuncItems : Len(it.body) = 1} \cup PrecItems

SpecExecFair == ExecInitOf(FairItems, FairMaxTop) /\ [][ExecNext]_vars /\ WF_vars(ExecRun)

(* exec_program on programs that define main, setup and (or not) init, each
   with a body of one call, followed by up to MaxPrecFacts isPreceededBy
   facts between these names. *)
MaxPrecFacts == 3
PrecNames == <<"main", "setup", "init">>
PrecFuncs == [i \in 1..3 |-> Item("func", PrecNames[i], <<CallPrint>>, NullStr, NullStr, NullStr)]
PrecFacts ==
    {Item("tfact", NullStr, <<>>, PrecNames[s], "isPreceededBy", PrecNames[o]) :
        s \in 1..3, o \in 1..3}
PrecProgs ==
    {SubSeq(PrecFuncs, 1, n) \o fs : n \in {2, 3}, fs \in SeqsUpTo(PrecFacts, MaxPrecFacts)}

SpecPrec == ExecInitFrom(PrecProgs) /\ [][ExecNext]_vars

(* exec_program on programs that define main and setup, each printing its
   name, followed by up to MaxProbeFacts facts: isPreceededBy between the two,
   printsATestMessageWhenCalled with one of them as subject and no object,
   the other function as object, or an object that names nothing. *)
MaxProbeFacts == 3
ProbeFuncs ==
    <<Item("func", "main", <<CallOf("scope", <<"print">>, "str", "main")>>,
           NullStr, NullStr, NullStr),
      Item("func", "setup", <<CallOf("scope", <<"print">>, "str", "setup")>>,
           NullStr, NullStr, NullStr)>>
ProbeFacts ==
    PrecItems \cup
    {Item("tfact", NullStr, <<>>, s, "printsATestMessageWhenCalled", o) :
        s \in FnNames, o \in FnNames \cup {NullStr, "nothing"}}
ProbeProgs == {ProbeFuncs \o fs : fs \in SeqsUpTo(ProbeFacts, MaxProbeFacts)}

SpecProbe == ExecInitFrom(ProbeProgs) /\ [][ExecNext]_vars

(* exec_program on programs whose main has a body of up to MaxBody call
   statements of every shape, alone or preceded by a function setup. *)
MaxBody == 3
CallPrintln == CallOf("scope", <<"println">>, "str", "there")
CallShapes ==
    {CallPrint, CallPrintln, CallUnknown,
     CallOf("scope", <<"print">>, "none", NullStr),
     CallOf("scope", <<"println">>, "int", "1"),
     CallOf("scope", <<"io", "print">>, "str", "hi"),
     CallOf("const", <<"print">>, "str", "hi"),
     CallOf("scope", <<"print">>, "two", "hi")}
MainItems ==
    {Item("func", "main", b, NullStr, NullStr, NullStr) : b \in SeqsUpTo(CallShapes, MaxBody)}
CallProgs ==
    {<<m>> : m \in MainItems}
        \cup {<<m, Item("func", "setup", <<CallPrintln>>, NullStr, NullStr, NullStr),
                Item("tfact", NullStr, <<>>, "main", "isPreceededBy", "setup")>> :
                  m \in {it \in MainItems : Len(it.body) <= 1}}

SpecCall == ExecInitFrom(CallProgs) /\ [][ExecNext]_vars

(* exec_program on programs of functions and triple facts whose relation,
   subject and object each may or may not name a registered resource. *)
FactMaxTop == 3
FactItems ==
    {Item("func", n, <<CallPrint>>, NullStr, NullStr, NullStr) : n \in FnNames}
        \cup {Item("tfact", NullStr, <<>>, s, r, o) :
                 s \in FnNames, r \in {"isPreceededBy", "knows"},
                 o \in FnNames \cup {NullStr}}

SpecFacts == ExecInitOf(FactItems, FactMaxTop) /\ [][ExecNext]_vars

(* The built-ins called on argument lists of up to MaxCallArgs nodes, each
   a string or an integer constant, linked by ast_add_seq. *)
MaxCallArgs == 3
ArgKinds ==
    {[type |-> "ANT_STR", value |-> "hi"], [type |-> "ANT_STR", value |-> "there"],
     [type |-> "ANT_STR", value |-> ""], [type |-> "ANT_INT", value |-> "1"]}

RECURSIVE BuildArgList(_, _, _, _)
BuildArgList(h, kinds, i, head) ==
    IF i > Len(kinds) THEN AOut(h, head, "none")
    ELSE Then(IF kinds[i].type = "ANT_STR" THEN ast_new_str(h, kinds[i].value)
              ELSE ast_new_int(h, kinds[i].value), LAMBDA n :
         IF i = 1 THEN BuildArgList(n.h, kinds, 2, n.val)
         ELSE Then(ast_add_seq(n.h, head, n.val), LAMBDA a :
              BuildArgList(a.h, kinds, i + 1, a.val)))

BuiltinInit ==
    /\ \E kinds \in SeqsUpTo(ArgKinds, MaxCallArgs) :
          \E b \in {BuildArgList(<<>>, kinds, 1, NULL)} :
             /\ nodes = b.h
             /\ aret = [NoARet EXCEPT !.args = <<b.val>>]
    /\ db = <<>>
    /\ resources = <<>>
    /\ facts = <<>>
    /\ ret = NoRet
    /\ ExecIdle

BuiltinCall(op, o) ==
    /\ aret.op = "none"
    /\ aret' = [aret EXCEPT !.op = op]
    /\ stdout' = o.stdout
    /\ stderr' = o.stderr
    /\ UNCHANGED <<ontoVars, nodes, pc, root, stack, log>>

BuiltinPrint ==
    BuiltinCall("lang_builtin_fn_print", lang_builtin_fn_print(nodes, aret.args[1]))
BuiltinPrintln ==
    BuiltinCall("lang_builtin_fn_println", lang_builtin_fn_println(nodes, aret.args[1]))

BuiltinNext == BuiltinPrint \/ BuiltinPrintln

SpecBuiltin == BuiltinInit /\ [][BuiltinNext]_vars

(***************************************************************************)
(*                        Claims about the executor                        *)
(***************************************************************************)

(* The resource a name resolves to in the knowledge base. *)
Res(name) == ontology_find_resource(Store, Kb, name)

(* The knowledge base stores the fact isPreceededBy(f, g). *)
PrecFactStored(f, g) ==
    /\ Res(f) # NULL
    /\ Res(g) # NULL
    /\ \E i \in 1..Len(StoredFacts(Kb)) :
          /\ StoredFacts(Kb)[i].predicate = Res("isPreceededBy")
          /\ StoredFacts(Kb)[i].argument_head = <<Res(f), Res(g)>>

(* The top-level statements of the program, and the functions it defines. *)
TopLevel == IF root = NULL THEN {} ELSE Range(ChildChain(nodes, root))
Defined(name) ==
    \E n \in TopLevel : nodes[n].type = "ANT_FUNC" /\ NameUnder(nodes, n) = name

(* The program text declares the triple fact <f> isPreceededBy <g>. *)
DeclaresPrec(f, g) ==
    \E n \in TopLevel :
        /\ nodes[n].type = "ANT_TFACT"
        /\ nodes[nodes[nodes[n].child].child].value = "isPreceededBy"
        /\ LET sbj == nodes[nodes[n].child].sibling
               obj == nodes[sbj].sibling
           IN  /\ NameUnder(nodes, sbj) = f
               /\ obj # NULL
               /\ NameUnder(nodes, obj) = g

(* The call statements at the top level of a function's body. *)
BodyCalls(fn) ==
    {c \in Range(SiblingChain(nodes, nodes[nodes[fn].child].sibling, 1)) :
        nodes[c].type = "ANT_CALL"}

MainFn == get_fn(nodes, root, "main")
SetupFn == get_fn(nodes, root, "setup")
Populated == pc \in {"running", "done"}

(* C4: when isPreceededBy(main, setup) is stored and setup is defined, every
   call of setup's body is dispatched before any call of main's body. *)
C4_PredecessorBodyFirst ==
    (Populated /\ SetupFn # NULL /\ PrecFactStored("main", "setup"))
        => \A i \in 1..Len(log) :
              log[i][1] = MainFn
                 => \A c \in BodyCalls(SetupFn) :
                       \E j \in 1..(i - 1) : log[j] = <<SetupFn, c>>

(* C4 witness: a finished run where setup's body has two calls and main's
   body dispatched a call after them. *)
C4_Witness ==
    /\ pc = "done"
    /\ SetupFn # NULL
    /\ PrecFactStored("main", "setup")
    /\ Cardinality(BodyCalls(SetupFn)) = 2
    /\ \E i \in 1..Len(log) : log[i][1] = MainFn

(* The isPreceededBy edges between defined functions, and what they reach. *)
PrecEdge(f, g) == Defined(f) /\ Defined(g) /\ PrecFactStored(f, g)
RECURSIVE PrecReach(_, _)
PrecReach(S, n) ==
    IF n = 0 THEN S
    ELSE PrecReach(S \cup {g \in FnNames : \E f \in S : PrecEdge(f, g)}, n - 1)
OnCycle(g) ==
    g \in PrecReach({h \in FnNames : PrecEdge(g, h)}, Cardinality(FnNames))
CycleReachable ==
    \E g \in PrecReach({"main"}, Cardinality(FnNames)) : OnCycle(g)

MainBodyReached ==
    \E i \in 1..Len(stack) : stack[i].fn = MainFn /\ stack[i].inbody

(* C5: with a cycle of isPreceededBy facts reachable from main the run never
   finishes and never reaches main's body; without one the run finishes. *)
C5_TerminatesIffAcyclic ==
    /\ []((Populated /\ CycleReachable) => (pc # "done" /\ ~MainBodyReached))
    /\ []((pc = "running" /\ ~CycleReachable) => <>(pc = "done"))

(* C5 witness: a cycle is reachable and the recursion has gone round it, the
   same function being active twice. *)
C5_Witness ==
    /\ pc = "running"
    /\ CycleReachable
    /\ \E i \in 1..Len(stack), j \in 1..Len(stack) :
          i < j /\ stack[i].fn = stack[j].fn

(* C10: when the program declares <main> isPreceededBy <setup> and defines
   no setup, a finished run has dispatched main's body, no other body, and
   has written a diagnostic. *)
C10_MissingPredecessorDiagnosed ==
    (/\ pc = "done"
     /\ MainFn # NULL
     /\ ~Defined("setup")
     /\ DeclaresPrec("main", "setup"))
        => /\ \A c \in BodyCalls(MainFn) : \E j \in 1..Len(log) : log[j] = <<MainFn, c>>
           /\ \A j \in 1..Len(log) : log[j][1] = MainFn
           /\ stderr # <<>>

(* The statements of fn's body, and its call statements, in chain order. *)
BodyChain(fn) == SiblingChain(nodes, nodes[nodes[fn].child].sibling, 1)
IsCallNode(c) == nodes[c].type = "ANT_CALL"
BodyCallSeq(fn) == SelectSeq(BodyChain(fn), IsCallNode)

(* The nodes of a chain that come before cur (all of them when cur is NULL). *)
RECURSIVE Before(_, _)
Before(s, cur) ==
    IF s = <<>> \/ Head(s) = cur THEN <<>> ELSE <<Head(s)>> \o Before(Tail(s), cur)

(* The last dispatches of the log are the calls cs of function fn, in order. *)
LogEndsWith(fn, cs) ==
    /\ Len(log) >= Len(cs)
    /\ \A i \in 1..Len(cs) : log[Len(log) - Len(cs) + i] = <<fn, cs[i]>>

(* The call node c is name(arg) with a one-segment callee, arg a string
   constant or absent. *)
IsCall(c, name, arg) ==
    LET callee == nodes[c].child
        args   == nodes[callee].sibling
    IN  /\ nodes[c].type = "ANT_CALL"
        /\ nodes[callee].type = "ANT_SCOPE"
        /\ nodes[nodes[callee].child].value = name
        /\ nodes[nodes[callee].child].sibling = NULL
        /\ IF arg = NullStr THEN args = NULL
           ELSE /\ args # NULL
                /\ nodes[args].type = "ANT_STR"
                /\ nodes[args].value = arg

(* The program is fn main() { print("hi"); println("there"); unknown_fn(); } *)
ScenarioC ==
    /\ root # NULL
    /\ Len(ChildChain(nodes, root)) = 1
    /\ MainFn # NULL
    /\ LET b == BodyChain(MainFn)
       IN  /\ Len(b) = 3
           /\ IsCall(b[1], "print", "hi")
           /\ IsCall(b[2], "println", "there")
           /\ IsCall(b[3], "unknown_fn", NullStr)

UnknownFnDiag == "[E] unknown function...\n"
IsDiag(s) == s = UnknownFnDiag
IsOutput(s) == s # UnknownFnDiag
RECURSIVE Text(_)
Text(s) == IF s = <<>> THEN "" ELSE Head(s) \o Text(Tail(s))
DiagEmitted == SelectSeq(stdout \o stderr, IsDiag) # <<>>

(* C11: the calls of a function body are dispatched in sibling-chain order
   and a call to an unknown function does not stop the walk: while a body is
   walked the last dispatches are the calls before the current node, and at
   the end of the run they are all calls of main's body.  For the body
   print("hi"); println("there"); unknown_fn(); the text written by the
   built-ins is hithere and a newline, all of it written when the diagnostic
   is emitted, and the diagnostic is emitted by the end of the run. *)
C11_BodyOrder ==
    /\ (pc = "running" /\ stack # <<>> /\ Top.inbody)
          => LogEndsWith(Top.fn, SelectSeq(Before(BodyChain(Top.fn), Top.cur), IsCallNode))
    /\ (pc = "done" /\ MainFn # NULL) => LogEndsWith(MainFn, BodyCallSeq(MainFn))
    /\ (ScenarioC /\ (DiagEmitted \/ pc = "done"))
          => /\ Text(SelectSeq(stdout, IsOutput)) = "hithere\n"
             /\ DiagEmitted

(* C11 witness: the run of print("hi"); println("there"); unknown_fn(); has
   finished. *)
C11_Witness == pc = "done" /\ ScenarioC /\ Len(log) = 3

(* The argument list a built-in was called on is one string node. *)
OneStringArg(args) ==
    args # NULL /\ nodes[args].type = "ANT_STR" /\ nodes[args].sibling = NULL

(* C12: print and println write to standard output only when called on
   exactly one argument node of string kind, print the string itself and
   println the string and one newline; with no argument, a first argument
   that is not a string, or more than one argument they write nothing to
   standard output and one diagnostic, and return. *)
C12_PrintArguments ==
    aret.op \in {"lang_builtin_fn_print", "lang_builtin_fn_println"}
        => LET args == aret.args[1]
           IN  IF OneStringArg(args)
               THEN /\ stdout = <<nodes[args].value \o
                                   (IF aret.op = "lang_builtin_fn_println" THEN "\n" ELSE "")>>
                    /\ stderr = <<>>
               ELSE /\ stdout = <<>>
                    /\ Len(stderr) = 1

(* C12 witness: print was called on a list of two string nodes. *)
C12_Witness ==
    /\ aret.op = "lang_builtin_fn_print"
    /\ aret.args[1] # NULL
    /\ nodes[aret.args[1]].type = "ANT_STR"
    /\ nodes[aret.args[1]].sibling # NULL
    /\ nodes[nodes[aret.args[1]].sibling].type = "ANT_STR"
    /\ stderr = <<"Error: print: too many arguments">>

(* The callee of call node c is a scope path of one string segment naming
   print or println. *)
Recognised(c) ==
    LET call_expr == nodes[c].child
    IN  /\ nodes[call_expr].type = "ANT_SCOPE"
        /\ nodes[call_expr].child # NULL
        /\ nodes[nodes[call_expr].child].type = "ANT_STR"
        /\ nodes[nodes[call_expr].child].sibling = NULL
        /\ nodes[nodes[call_expr].child].value \in {"print", "println"}

RocksMsg == "OXPL rocks!\n"
PrintErrors ==
    {"Error: print: argument missing", "Error: print: wrong type of argument",
     "Error: print: too many arguments"}
IsPrintText(s) == s \notin {UnknownFnDiag, RocksMsg}
IsPrintError(s) == s \in PrintErrors

(* What the built-ins have written so far, text or diagnostic: one entry for
   each call of one. *)
BuiltinWrites == SelectSeq(stdout, IsPrintText) \o SelectSeq(stderr, IsPrintError)
Diags == SelectSeq(stdout \o stderr, IsDiag)

(* C13: every call walked by the body loop whose callee is a one-segment
   scope path naming print or println is dispatched to that built-in, and
   every other call (unknown name, path of several segments, callee that is
   no scope path) dispatches nothing and emits the unknown-function
   diagnostic: the built-ins have written once for each recognised call of
   the log, and there is one diagnostic for each other call of the log. *)
C13_DispatchOrDiagnose ==
    Populated
        => /\ Len(BuiltinWrites) = Cardinality({i \in 1..Len(log) : Recognised(log[i][2])})
           /\ Len(Diags) = Cardinality({i \in 1..Len(log) : ~Recognised(log[i][2])})

(* C14: when no top-level function definition is named main, validation
   fails and reports the missing main function, no function is entered, no
   call is dispatched, nothing is written to standard output, and the run
   ends with the missing-main error of execute. *)
C14_NoMainNoOutput ==
    ~Defined("main")
        => /\ ast_validate(nodes, root).val = 1
           /\ pc # "running"
           /\ stack = <<>>
           /\ log = <<>>
           /\ stdout = <<>>
           /\ (pc # "parsed" /\ root # NULL)
                 => \E i \in 1..Len(stderr) : stderr[i] = "[A] Error: missing main function"
           /\ pc = "done"
                 => \E i \in 1..Len(stderr) : stderr[i] = "[E] Error: main function not present"

(* C14 witness: a finished run of a program that defines setup with a body
   of calls, and no main. *)
C14_Witness ==
    /\ pc = "done"
    /\ ~Defined("main")
    /\ SetupFn # NULL
    /\ BodyCalls(SetupFn) # {}

(* Setup fails: the AST is absent, validation fails, or there is no main. *)
SetupFails == root = NULL \/ ast_validate(nodes, root).val # 0 \/ ~Defined("main")

(* C15: when setup fails (no AST, validation failure, no main) the run
   stops before the knowledge base is populated and before execution, and
   exec_program returns a failure status; it returns success only when main
   was located and executed. *)
C15_SetupFailureStatus ==
    /\ SetupFails => (pc \in {"parsed", "done"} /\ db = <<>>)
    /\ ret.op = "exec_program" => (ret.val = 0 <=> ~SetupFails)

(* C16: a builder call whose input violates the kind's shape contract
   returns NULL: ast_new_scope with an absent or non-string value,
   ast_new_binop and ast_new_binop_s with an operator they do not know,
   ast_new_unop with an operator other than ++, -- and -; and no node a
   builder has returned has the type ANT_UNDEFINED. *)
C16_ShapeViolationFails ==
    /\ (/\ aret.op = "ast_new_scope"
        /\ (aret.args[1] = NULL \/ nodes[aret.args[1]].type # "ANT_STR"))
          => aret.val = NULL
    /\ (aret.op = "ast_new_binop" /\ aret.oper \notin DOMAIN BinopType)
          => aret.val = NULL
    /\ (aret.op = "ast_new_binop_s" /\ aret.oper \notin DOMAIN BinopChar)
          => aret.val = NULL
    /\ (aret.op = "ast_new_unop" /\ aret.oper \notin {"++", "--", "-"})
          => aret.val = NULL
    /\ \A n \in NodePtrs : nodes[n].type # "ANT_UNDEFINED"

(* One builder call seen from the claim about kind tags. *)
C17_Step ==
    /\ \A i \in 1..Len(nodes) :
          nodes'[i].type # nodes[i].type
             => /\ aret'.op = "ast_convert_cmpd_seq"
                /\ aret'.args = <<i>>
                /\ nodes[i].type = "ANT_CMPD"
                /\ nodes'[i].type = "ANT_SEQ"
    /\ (aret'.op = "ast_convert_cmpd_seq" /\ aret'.args[1] # NULL)
          => IF nodes[aret'.args[1]].type = "ANT_CMPD"
             THEN /\ aret'.val = aret'.args[1]
                  /\ nodes' = [nodes EXCEPT ![aret'.args[1]].type = "ANT_SEQ"]
             ELSE /\ aret'.val = NULL
                  /\ nodes' = nodes

(* C17: ast_convert_cmpd_seq on a compound-block node returns the same node
   with its type changed to sequence and its child and sibling links as they
   were; on a node of another kind it returns NULL and changes nothing; and
   no other builder call changes the type of an existing node. *)
C17_RetagOnlyByConvert == [][C17_Step]_vars

(* C17 witness: a compound-block node with a child has been converted. *)
C17_Witness ==
    /\ aret.op = "ast_convert_cmpd_seq"
    /\ aret.val # NULL
    /\ nodes[aret.val].type = "ANT_SEQ"
    /\ nodes[aret.val].child # NULL

(* The positions in d's resource list of the resources named name. *)
NamedAt(d, name) ==
    {i \in 1..Len(db[d].resource_head) : resources[db[d].resource_head[i]].name = name}

(* C18: ontology_find_resource(db, name) returns the earliest-inserted
   resource of db named name and NULL when there is none; for a NULL name
   and for the empty name it returns NULL, also when db stores a resource
   with the empty name. *)
C18_FindResource ==
    (ret.op = "find_resource" /\ ret.args[1] # NULL)
        => LET d == ret.args[1]
           IN  IF ret.name = NullStr \/ ret.name = "" \/ NamedAt(d, ret.name) = {}
               THEN ret.val = NULL
               ELSE \E i \in NamedAt(d, ret.name) :
                       /\ ret.val = db[d].resource_head[i]
                       /\ \A j \in NamedAt(d, ret.name) : i <= j

(* One call of ontology_create_fact or ontology_add_argument_to_fact seen
   from the claim about the resources they accept. *)
C19_Step ==
    /\ ret'.op = "create_fact"
          => LET d == ret'.args[1]
                 p == ret'.args[2]
             IN  /\ db' = db
                 /\ resources' = resources
                 /\ IF p \in Range(db[d].resource_head)
                    THEN /\ ret'.val = Len(facts) + 1
                         /\ facts' = Append(facts, [predicate |-> p, argument_head |-> <<>>])
                    ELSE /\ ret'.val = NULL
                         /\ facts' = facts
    /\ ret'.op = "add_argument_to_fact"
          => LET d == ret'.args[1]
                 f == ret'.args[2]
                 a == ret'.args[3]
             IN  /\ db' = db
                 /\ resources' = resources
                 /\ facts' = IF a \in Range(db[d].resource_head)
                              THEN [facts EXCEPT ![f].argument_head = Append(@, a)]
                              ELSE facts

(* C19: ontology_create_fact and ontology_add_argument_to_fact accept a
   resource exactly when that resource itself is in db's resource list:
   create_fact then returns a new fact with no arguments and otherwise NULL,
   add_argument_to_fact then appends the resource to the fact's arguments
   and otherwise leaves them as they were; neither changes db's resource
   list or fact list. *)
C19_AcceptByIdentity == [][C19_Step]_vars

(* C19 witness: create_fact has refused a resource that is not in the
   database while a resource of the same name is. *)
C19_Witness ==
    /\ ret.op = "create_fact"
    /\ ret.val = NULL
    /\ ret.args[2] # NULL
    /\ \E r \in Range(db[ret.args[1]].resource_head) :
          r # ret.args[2] /\ resources[r].name = resources[ret.args[2]].name

(* The resource of the knowledge base a name resolves to: the first of that
   name in the resource list, NULL when there is none. *)
Resolve(name) ==
    IF name = NullStr \/ NamedAt(Kb, name) = {} THEN NULL
    ELSE db[Kb].resource_head[CHOOSE i \in NamedAt(Kb, name) :
                                 \A j \in NamedAt(Kb, name) : i <= j]

(* The triple facts of the program in source order, and the names in one. *)
IsTFactNode(n) == nodes[n].type = "ANT_TFACT"
TFactNodes == IF root = NULL THEN <<>> ELSE SelectSeq(ChildChain(nodes, root), IsTFactNode)
RelName(n) == nodes[nodes[nodes[n].child].child].value
SbjName(n) == NameUnder(nodes, nodes[nodes[n].child].sibling)
ObjName(n) ==
    LET obj == nodes[nodes[nodes[n].child].sibling].sibling
    IN  IF obj = NULL THEN NullStr ELSE NameUnder(nodes, obj)
Storable(n) == Resolve(RelName(n)) # NULL /\ Resolve(SbjName(n)) # NULL

(* The fact a storable triple fact stands for. *)
FactOf(n) ==
    [predicate |-> Resolve(RelName(n)),
     argument_head |-> IF Resolve(ObjName(n)) # NULL
                       THEN <<Resolve(SbjName(n)), Resolve(ObjName(n))>>
                       ELSE <<Resolve(SbjName(n))>>]
ExpectedFacts ==
    LET ts == SelectSeq(TFactNodes, Storable)
    IN  [i \in 1..Len(ts) |-> FactOf(ts[i])]
IsUnknownPartWarning(s) == s = "Warning: unknown sentence part"

(* C20: after population the knowledge base stores, in source order, one
   fact for each top-level triple fact whose relation and subject resolve,
   with the arguments subject and object when the object resolves and the
   subject alone when it is absent or does not resolve, and nothing for the
   other triple facts, each of which has given one warning; a skipped fact
   does not keep the later ones from being stored. *)
C20_TripleFactsCollected ==
    pc \in {"populated", "running", "done"}
        => /\ StoredFacts(Kb) = ExpectedFacts
           /\ Len(SelectSeq(stderr, IsUnknownPartWarning))
                 = Len(TFactNodes) - Len(ExpectedFacts)

(* C20 witness: a populated knowledge base for a program whose first triple
   fact was skipped and whose second, with an object that does not resolve,
   was stored with the subject alone. *)
C20_Witness ==
    /\ pc = "populated"
    /\ Len(TFactNodes) = 2
    /\ ~Storable(TFactNodes[1])
    /\ Storable(TFactNodes[2])
    /\ ObjName(TFactNodes[2]) # NullStr
    /\ Len(StoredFacts(Kb)[1].argument_head) = 1

(***************************************************************************)
(*                      The shell (src/shell.c)                            *)
(*                                                                         *)
(* The shell holds one database pointer, NULL until createdb.  A command   *)
(* is one step; what the user types at its prompts is the step's input.    *)
(* The listing commands build their text in a buffer result with the index *)
(* i of the end of the last string, and then write the terminating byte    *)
(* at result[i - 1].                                                       *)
(***************************************************************************)
ShMaxRes == 2
ShMaxFacts == 2
ShMaxArgs == 2
ShNames == {"a", "bc", ""}

(* The shell's database pointer. *)
ShellDb == IF db = <<>> THEN NULL ELSE 1

(* append: src is copied to result[i..], i moves to its end. *)
append(buf, src) == [result |-> buf.result \o src, i |-> buf.i + Len(src)]

(* append_newline: src and a newline are copied, i moves behind the newline. *)
append_newline(buf, src) ==
    [result |-> buf.result \o src \o "\n", i |-> buf.i + Len(src) + 1]

RECURSIVE ListResourcesScan(_, _, _)
ListResourcesScan(st, list, buf) ==
    IF list = <<>> THEN buf
    ELSE ListResourcesScan(st, Tail(list), append_newline(buf, st.resources[Head(list)].name))

RECURSIVE ListArgumentsScan(_, _, _)
ListArgumentsScan(st, args, buf) ==
    IF args = <<>> THEN buf
    ELSE Then(append(buf, st.resources[Head(args)].name), LAMBDA b :
         ListArgumentsScan(st, Tail(args),
                           IF Tail(args) # <<>> THEN append(b, ", ") ELSE b))

RECURSIVE ListFactsScan(_, _, _)
ListFactsScan(st, list, buf) ==
    IF list = <<>> THEN buf
    ELSE Then(append(buf, st.resources[st.facts[Head(list)].predicate].name), LAMBDA b1 :
         Then(ListArgumentsScan(st, st.facts[Head(list)].argument_head,
                                append(b1, "(")), LAMBDA b2 :
         ListFactsScan(st, Tail(list), append(b2, ").\n"))))

(* What a listing command did: the text built in result, the index the
   terminating byte was written at, and whether that index is outside the
   buffer (a write before result[0]). *)
Listed(buf) ==
    [text |-> buf.result, index |-> buf.i - 1, err |-> "none", fault |-> buf.i - 1 < 0]

NoDatabase ==
    [text |-> "", index |-> 0, err |-> "Error: no database available", fault |-> FALSE]

cmd_list_resources(st, d) ==
    IF d = NULL THEN NoDatabase
    ELSE Listed(ListResourcesScan(st, st.db[d].resource_head, [result |-> "", i |-> 0]))

cmd_list_facts(st, d) ==
    IF d = NULL THEN NoDatabase
    ELSE Listed(ListFactsScan(st, st.db[d].fact_head, [result |-> "", i |-> 0]))

cmd_create_db(st, d) ==
    IF d = NULL THEN ontology_create_database(st).st ELSE st

cmd_new_resource(st, d, name) ==
    IF d = NULL THEN st
    ELSE Then(ontology_create_resource(st, name), LAMBDA r :
         ontology_add_resource(r.st, d, r.val).st)

RECURSIVE AddArguments(_, _, _, _)
AddArguments(st, d, fact, args) ==
    IF args = <<>> THEN st
    ELSE AddArguments(ontology_add_argument_to_fact(st, d, fact, Head(args)).st,
                      d, fact, Tail(args))

(* cmd_new_fact with the predicate and the arguments the user selects from
   the resource list (pred = NULL: no valid selection). *)
cmd_new_fact(st, d, pred, args) ==
    IF d = NULL \/ pred = NULL THEN st
    ELSE Then(ontology_create_fact(st, d, pred), LAMBDA f :
         ontology_add_fact(AddArguments(f.st, d, f.val, args), d, f.val).st)

(* A command that changes the database. *)
ShellUpdate(op, st) ==
    /\ db' = st.db
    /\ resources' = st.resources
    /\ facts' = st.facts
    /\ ret' = [NoRet EXCEPT !.op = op]
    /\ UNCHANGED <<astVars, execVars>>

(* A listing command: ret.name is the text built, ret.val the index of the
   terminating byte. *)
ShellList(op, l) ==
    /\ ret' = [NoRet EXCEPT !.op = op, !.name = l.text, !.val = l.index,
                            !.err = l.err, !.fault = l.fault]
    /\ UNCHANGED <<db, resources, facts, astVars, execVars>>

ShellInit ==
    /\ db = <<>>
    /\ resources = <<>>
    /\ facts = <<>>
    /\ ret = NoRet
    /\ AstIdle
    /\ ExecIdle

ShellNext ==
    \/ ShellUpdate("createdb", cmd_create_db(Store, ShellDb))
    \/ \E name \in ShNames :
          /\ Len(resources) < ShMaxRes
          /\ ShellUpdate("newres", cmd_new_resource(Store, ShellDb, name))
    \/ \E pred \in ResPtrs \cup {NULL}, args \in SeqsUpTo(ResPtrs, ShMaxArgs) :
          /\ Len(facts) < ShMaxFacts
          /\ pred = NULL => args = <<>>
          /\ ShellUpdate("newfact", cmd_new_fact(Store, ShellDb, pred, args))
    \/ ShellList("listres", cmd_list_resources(Store, ShellDb))
    \/ ShellList("listfacts", cmd_list_facts(Store, ShellDb))

SpecShell == ShellInit /\ [][ShellNext]_vars

(***************************************************************************)
(*                          Claims C21 .. C30                              *)
(***************************************************************************)

(* How often free() is given the block (kind, ptr) in frees. *)
TimesFreed(frees, kind, ptr) ==
    Cardinality({i \in 1..Len(frees) : frees[i] = Freed(kind, ptr)})

(* C21: ontology_free_database releases every resource and every fact of
   the database exactly once, however often each was added, and releasing a
   fact releases no resource. *)
C21_ReleasedExactlyOnce ==
    /\ (ret.op = "free_database" /\ ret.args[1] # NULL) =>
          /\ \A r \in Range(db[ret.args[1]].resource_head) :
                TimesFreed(ret.list, "resource", r) = 1
          /\ \A f \in Range(db[ret.args[1]].fact_head) :
                TimesFreed(ret.list, "fact", f) = 1
    /\ \A f \in FactPtrs :
          \A i \in 1..Len(ontology_free_fact(Store, f)) :
              ontology_free_fact(Store, f)[i].kind # "resource"

(* The diagnostics of the execution phase. *)
ExecDiagnostics ==
    PrintErrors \cup {UnknownFnDiag, "[E] Error: main function not present"}

(* C22: no diagnostic of the execution phase is written to standard output:
   standard output holds only the text of print/println and the fixed
   demonstration message. *)
C22_DiagnosticsOffStdout ==
    \A i \in 1..Len(stdout) : stdout[i] \notin ExecDiagnostics

(* The top-level function definitions of the translation unit. *)
TopFuncs == {n \in TopLevel : nodes[n].type = "ANT_FUNC"}

(* The identifier slot of function definition n holds a string node. *)
StringIdent(n) ==
    /\ nodes[n].child # NULL
    /\ nodes[nodes[n].child].child # NULL
    /\ nodes[nodes[nodes[n].child].child].type = "ANT_STR"

(* The identifier slot of function definition n holds a node that is no
   string node. *)
OtherIdent(n) ==
    /\ nodes[n].child # NULL
    /\ nodes[nodes[n].child].child # NULL
    /\ nodes[nodes[nodes[n].child].child].type # "ANT_STR"

(* C23: ast_validate returns 0 exactly when the root is present, every
   top-level function definition has a string node in its identifier slot
   and one of them is named main; a function definition whose identifier is
   a node that is no string makes it return 1, before or after main. *)
C23_ValidateIff ==
    aret.op = "ast_validate"
        => /\ (aret.val = 0 /\ ~aret.fault)
                <=> /\ root # NULL
                    /\ \A n \in TopFuncs : StringIdent(n)
                    /\ \E n \in TopFuncs : StringIdent(n) /\ NameUnder(nodes, n) = "main"
           /\ (root # NULL /\ \E n \in TopFuncs : OtherIdent(n)
                            /\ \A m \in TopFuncs : StringIdent(m) \/ OtherIdent(m))
                => aret.val = 1 /\ ~aret.fault

(* C23 witness: validation has returned 1 for a unit whose first function
   definition is main and in which a later one has an integer identifier. *)
C23_Witness ==
    /\ aret.op = "ast_validate"
    /\ aret.val = 1
    /\ root # NULL
    /\ nodes[root].child # NULL
    /\ nodes[nodes[root].child].type = "ANT_FUNC"
    /\ StringIdent(nodes[root].child)
    /\ NameUnder(nodes, nodes[root].child) = "main"
    /\ \E n \in TopFuncs : OtherIdent(n)

(* The objects g of the stored facts isPreceededBy(f, g), in the insertion
   order of the facts, from the i-th stored fact on. *)
RECURSIVE PrecObjects(_, _)
PrecObjects(f, i) ==
    IF i > Len(StoredFacts(Kb)) THEN <<>>
    ELSE LET fact == StoredFacts(Kb)[i]
         IN  (IF /\ fact.predicate = Res("isPreceededBy")
                 /\ Len(fact.argument_head) = 2
                 /\ fact.argument_head[1] = Res(f)
              THEN <<resources[fact.argument_head[2]].name>> ELSE <<>>)
                \o PrecObjects(f, i + 1)

(* The functions whose bodies run when f is executed with depth more calls
   allowed, in order: for each predecessor in turn all that its execution
   runs, then f itself; nothing for a name that is no function. *)
RECURSIVE RunOrder(_, _)
RECURSIVE RunOrderOfAll(_, _)
RunOrder(f, depth) ==
    IF depth = 0 \/ ~Defined(f) THEN <<>>
    ELSE RunOrderOfAll(PrecObjects(f, 1), depth - 1) \o <<f>>
RunOrderOfAll(gs, depth) ==
    IF gs = <<>> THEN <<>>
    ELSE RunOrder(Head(gs), depth) \o RunOrderOfAll(Tail(gs), depth)

(* The functions whose body calls were dispatched, in dispatch order. *)
LogNames == [i \in 1..Len(log) |-> NameUnder(nodes, log[i][1])]

IsPrefix(s, t) == Len(s) <= Len(t) /\ s = SubSeq(t, 1, Len(s))

(* C24: the predecessors of a function run in the insertion order of its
   isPreceededBy facts, once per fact, each one completely (its own
   predecessors first) before the next, and all before the function's body:
   the bodies run so far are the first ones of the order so defined from
   main, and all of them when the run ends. *)
C24_PredecessorOrder ==
    /\ Populated => IsPrefix(LogNames, RunOrder("main", MaxDepth))
    /\ pc = "done" => LogNames = RunOrder("main", MaxDepth)

(* C24 witness: a finished run in which main has the predecessors init and
   setup twice, stored in the order setup, init, setup, or in which main has
   two predecessor facts and setup one of its own. *)
C24_Witness ==
    /\ pc = "done"
    /\ \/ PrecObjects("main", 1) = <<"setup", "init", "setup">> /\ Defined("init")
       \/ /\ PrecObjects("main", 1) = <<"init", "setup">>
          /\ PrecObjects("setup", 1) = <<"init">>
          /\ Defined("init")

(* The knowledge base stores a fact printsATestMessageWhenCalled whose
   argument sequence is exactly [f]. *)
ProbeStored(f) ==
    \E i \in 1..Len(StoredFacts(Kb)) :
        /\ StoredFacts(Kb)[i].predicate = Res("printsATestMessageWhenCalled")
        /\ StoredFacts(Kb)[i].argument_head = <<Res(f)>>

(* What executing f writes when every function prints its name, with depth
   more calls allowed: the message if the probe fact of f is stored, then
   what the predecessors write, then the name. *)
RECURSIVE RunOutput(_, _)
RECURSIVE RunOutputOfAll(_, _)
RunOutput(f, depth) ==
    IF depth = 0 \/ ~Defined(f) THEN <<>>
    ELSE (IF ProbeStored(f) THEN <<RocksMsg>> ELSE <<>>)
            \o RunOutputOfAll(PrecObjects(f, 1), depth - 1) \o <<f>>
RunOutputOfAll(gs, depth) ==
    IF gs = <<>> THEN <<>>
    ELSE RunOutput(Head(gs), depth) \o RunOutputOfAll(Tail(gs), depth)

(* C25: each execution of a function writes the demonstration message once
   if a fact printsATestMessageWhenCalled with the argument sequence [f] is
   stored and not at all otherwise, before its predecessors run and before
   its body: standard output is at all times the beginning, and at the end
   of the run the whole, of the output so defined from main. *)
C25_MessagePerExecution ==
    /\ Populated => IsPrefix(stdout, RunOutput("main", MaxDepth))
    /\ pc = "done" => stdout = RunOutput("main", MaxDepth)

(* C25 witness: a finished run in which main's probe fact is stored, setup
   precedes main, and the only fact with setup as first argument of the
   probe predicate has a second argument; the message is written once,
   first. *)
C25_Witness ==
    /\ pc = "done"
    /\ ProbeStored("main")
    /\ ~ProbeStored("setup")
    /\ \E i \in 1..Len(StoredFacts(Kb)) :
          /\ StoredFacts(Kb)[i].predicate = Res("printsATestMessageWhenCalled")
          /\ StoredFacts(Kb)[i].argument_head = <<Res("setup"), Res("main")>>
    /\ stdout = <<RocksMsg, "setup", "main">>

(* The top-level function definitions in source order, and their names. *)
IsFuncNode(n) == nodes[n].type = "ANT_FUNC"
FuncNodes == IF root = NULL THEN <<>> ELSE SelectSeq(ChildChain(nodes, root), IsFuncNode)
FuncNames == [i \in 1..Len(FuncNodes) |-> NameUnder(nodes, FuncNodes[i])]

(* The resource registered for the first top-level definition of a function
   named name (NULL when the source defines none): the resource list holds the
   two built-in resources and then one resource per definition. *)
FuncResource(name) ==
    IF \A i \in 1..Len(FuncNames) : FuncNames[i] # name THEN NULL
    ELSE db[Kb].resource_head[2 + (CHOOSE i \in 1..Len(FuncNames) :
                                      /\ FuncNames[i] = name
                                      /\ \A j \in 1..(i - 1) : FuncNames[j] # name)]

BuiltinResource(name) ==
    IF name = "isPreceededBy" THEN db[Kb].resource_head[1]
    ELSE IF name = "printsATestMessageWhenCalled" THEN db[Kb].resource_head[2]
    ELSE NULL

(* A triple fact whose relation is built in and whose subject the source
   defines as a function, before or after the fact. *)
SourceResolves(n) ==
    /\ RelName(n) \in {"isPreceededBy", "printsATestMessageWhenCalled"}
    /\ \E i \in 1..Len(FuncNames) : FuncNames[i] = SbjName(n)

SourceFactOf(n) ==
    [predicate |-> BuiltinResource(RelName(n)),
     argument_head |-> <<FuncResource(SbjName(n))>>
                          \o (IF FuncResource(ObjName(n)) # NULL
                              THEN <<FuncResource(ObjName(n))>> ELSE <<>>)]

(* C26: after population the resource list is isPreceededBy,
   printsATestMessageWhenCalled and then one resource of its own per
   top-level function definition in source order, and every triple fact is
   resolved against all of them: the stored facts are those of the triple
   facts whose subject is a function defined anywhere in the source. *)
C26_ResourcesThenFacts ==
    pc \in {"populated", "running", "done"}
        => /\ [i \in 1..Len(db[Kb].resource_head) |->
                  resources[db[Kb].resource_head[i]].name]
                 = <<"isPreceededBy", "printsATestMessageWhenCalled">> \o FuncNames
           /\ NoDuplicates(db[Kb].resource_head)
           /\ LET ts == SelectSeq(TFactNodes, SourceResolves)
              IN  StoredFacts(Kb) = [i \in 1..Len(ts) |-> SourceFactOf(ts[i])]

(* C26 witness: a populated knowledge base for a source that states a fact
   about setup first and then defines setup twice: two resources named setup
   are registered and the fact is stored though its subject is defined after
   it. *)
C26_Witness ==
    /\ pc = "populated"
    /\ Len(TFactNodes) = 1
    /\ Len(FuncNodes) = 2
    /\ nodes[nodes[root].child].type = "ANT_TFACT"
    /\ FuncNames = <<"setup", "setup">>
    /\ SbjName(TFactNodes[1]) = "setup"
    /\ Len(StoredFacts(Kb)) = 1

(* A step of the execution phase: execute is called, or a step of a running
   execute_function. *)
C27_Step ==
    pc \in {"populated", "running"}
        => /\ db' = db
           /\ resources' = resources
           /\ facts' = facts

(* C27: the execution phase leaves the knowledge base as population made
   it: no step from the call of execute to its return changes the resource
   list, the fact list, a resource or a fact. *)
C27_ExecutionKeepsKb == [][C27_Step]_vars

(* C27 witness: a finished run in which the demonstration message was
   written (a probe fact was built and found), a predecessor was executed,
   and facts are stored. *)
C27_Witness ==
    /\ pc = "done"
    /\ \E i \in 1..Len(stdout) : stdout[i] = RocksMsg
    /\ Len(log) >= 2
    /\ Len(StoredFacts(Kb)) >= 2

(* The nodes reachable from node n of heap h by child and sibling links. *)
ReachableFrom(h, n) == Range(ast_free(h, n, 1).seq)

(* A builder call that returns keeps every node reachable from one of its
   node arguments reachable from its result. *)
C28_Step ==
    (aret.op = "none" /\ aret'.op # "none" /\ ~aret'.fault)
        => \A i \in 1..Len(aret'.args) :
              ReachableFrom(nodes, aret'.args[i]) \subseteq ReachableFrom(nodes', aret'.val)

(* C28: no builder call loses nodes: with each node given to it at most
   once, every node reachable from a node argument before the call is
   reachable from the result after it. *)
C28_NoNodeLost == [][C28_Step]_vars

(* The translation unit is present and its top-level chain is empty. *)
EmptyTopLevel == root # NULL /\ nodes[root].child = NULL

(* C29: collect_facts and get_fn never read the kind of an absent node: for
   a translation unit with an empty top-level chain the run does not fault,
   population registers the two built-in resources only, and execution
   reports the missing main function. *)
C29_EmptyChainSafe ==
    EmptyTopLevel
        => /\ pc # "crashed"
           /\ Populated \/ pc = "populated" => Len(db[Kb].resource_head) = 2
           /\ pc = "done"
                 => \E i \in 1..Len(stderr) :
                       stderr[i] = "[E] Error: main function not present"

(* C30: listres and listfacts write their terminating byte at an index
   that is not before the start of the result buffer, whatever createdb,
   newres and newfact have made of the database, the database without
   resources or without facts included. *)
C30_TerminatorInBuffer ==
    (ret.op \in {"listres", "listfacts"} /\ ret.err = "none")
        => ret.val >= 0 /\ ~ret.fault

====
